---- MODULE Spec2Model ----
(***************************************************************************)
(* The in-memory performance aggregator (PerformanceMonitor) and the HTTP  *)
(* routes that read and reset it.                                          *)
(*                                                                         *)
(* Durations are whole milliseconds, the clock is Date.now() in            *)
(* milliseconds.  A value the code rounds with Math.round(x * 100) / 100   *)
(* is kept as the integer Math.round(x * 100) (hundredths); NaN and        *)
(* Infinity are the integers NaN and PosInfinity, which no computed value  *)
(* reaches.                                                                *)
(***************************************************************************)
EXTENDS Integers, Sequences, FiniteSets, TLC

\* ------------------------------------------------------------ constants

\* The capacities of the bounded histories.
MaxResponseTimes == 1000
MaxSlowRequests == 50
MaxErrors == 100
MaxSlowQueries == 50
MaxResourceHistory == 100

\* The thresholds: a request is slow above SlowRequestMs, an error from
\* ErrorStatus on, a query is slow above SlowQueryMs.
SlowRequestMs == 1000
ErrorStatus == 400
SlowQueryMs == 100

\* query.substring(0, 100)
MaxQueryText == 100

\* 60 * 60 * 1000
OneHourMs == 3600000

\* fastest: Infinity, and the IEEE values a division by zero produces.
Infinity == 2147483647
PosInfinity == 2147483646
NaN == -2147483647

\* ------------------------------------------------------------ bounds

\* Operations after Init.
MaxSteps == 3
\* Operations after InitFull.
MaxFullSteps == 2
\* Operations of a process under load.
MaxLoadSteps == 11
\* Operations of a process serving requests of five different durations.
MaxPercentileSteps == 6
\* Requests served to a few endpoints.
MaxEndpointSteps == 4
\* Timer events and calls of startMonitoring and stopMonitoring.
MaxLifecycleSteps == 4
\* Calls of the wrapped res.end.
MaxMiddlewareSteps == 3
\* Operations of the repository's own code after InitFull.
MaxProgramSteps == 2
\* Requests served around the error threshold.
MaxStatusSteps == 3
\* Requests, CPU samples and polls of the real-time summary.
MaxRealtimeSteps == 4
\* Requests and health probes.
MaxServerSteps == 2
\* Requests, queries, clock advances and cleanup ticks.
MaxRetentionSteps == 6
\* Requests handled through the middleware of one of two instances.
MaxInstanceSteps == 2
\* Responses observed by responseTimeMiddleware, and reads and clears of
\* its store.
MaxStoreSteps == 3
\* Timer callbacks and signals of middleware/monitoring.js.
MaxModuleSteps == 4
\* Calls of checkMetric, escalation timeouts and clock advances.
MaxAlertSteps == 5

\* ------------------------------------------------------------ inputs

\* What the request object carries besides the measured values.
UserAgent == "agent"
Ip == "127.0.0.1"
User == "anonymous"

\* The completed requests the model observes: method, path, status and
\* measured duration.
Requests ==
    {[method |-> "GET", path |-> "/api/posts", statusCode |-> 200, duration |-> 999],
     [method |-> "GET", path |-> "/api/posts", statusCode |-> 500, duration |-> 1000],
     [method |-> "POST", path |-> "/api/posts", statusCode |-> 200, duration |-> 1001],
     [method |-> "GET", path |-> "/health", statusCode |-> 500, duration |-> 1500]}
\* The queries it observes: the length of the text and the duration.
Queries ==
    {[length |-> 150, duration |-> 100],
     [length |-> 20, duration |-> 101],
     [length |-> 20, duration |-> 250]}
\* Clock advances: a second, and a full retention window.
TickDeltas == {1000, OneHourMs}
\* process.cpuUsage(previous): user and system microseconds since the
\* previous sample.
CpuDeltas == {[user |-> 600000, system |-> 300000]}
\* process.memoryUsage() and os.totalmem() / os.freemem().
MemoryReadings ==
    {[rss |-> 90, heapUsed |-> 45, heapTotal |-> 60, external |-> 2,
      total |-> 8000, free |-> 1000]}

\* ------------------------------------------------------------ state

VARIABLES
    pm,        \* the PerformanceMonitor instance: metrics, startTime,
               \* lastNetworkSample
    now,       \* Date.now()
    envKey,    \* process.env.MONITORING_API_KEY
    nextId,    \* the next fresh uuidv4()
    snapshot,  \* the object the last getStats() call returned
    last,      \* the last operation and what it answered
    burst,     \* the requests recorded since the last other operation
    steps,     \* operations since Init
    timers,    \* cpuInterval, memoryInterval, networkInterval and
               \* cleanupInterval of the instance, and the intervals the
               \* event loop holds
    running,   \* the Node process has not exited
    finalized, \* responses whose original end has been invoked
    tracked,   \* the durations given to trackDatabaseQuery since
               \* construction or the last reset()
    cleanedAt, \* when cleanupInterval was set or last ran cleanupOldData
    second,    \* another instance, made with new PerformanceMonitor()
    metrics,   \* the metrics object of middleware/monitoring.js
    intervals, \* the intervals middleware/monitoring.js set at load that
               \* the event loop still holds
    engine,    \* a PerformanceAlertEngine instance
    timeouts,  \* the escalation steps setTimeout holds
    sent,      \* the notifications sendAlert has sent
    observed   \* the times responseTimeMiddleware was given since
               \* middleware/monitoring.js was loaded or clearMetrics() ran

\* What the PerformanceMonitor instance and its routes never touch.
elsewhere == <<second, metrics, intervals, engine, timeouts, sent, observed>>

vars == <<pm, now, envKey, nextId, snapshot, last, burst, steps, timers,
          running, finalized, tracked, cleanedAt, second, metrics, intervals,
          engine, timeouts, sent, observed>>

\* ------------------------------------------------------------ helpers

Min(a, b) == IF a < b THEN a ELSE b
Max(a, b) == IF a > b THEN a ELSE b

\* The last n elements of s (all of s when it is shorter).
LastN(s, n) == SubSeq(s, Max(1, Len(s) - n + 1), Len(s))

\* array.push(x) followed by `if (array.length > cap) array.shift()`.
PushBoundedDropNewest(s, x, cap) ==
    IF Len(s) + 1 > cap THEN s ELSE Append(s, x)
PushBoundedOffByOne(s, x, cap) ==
    IF Len(s) + 1 > cap + 1 THEN Tail(Append(s, x)) ELSE Append(s, x)
PushBounded(s, x, cap) ==
    IF Len(s) + 1 > cap THEN Tail(Append(s, x)) ELSE Append(s, x)

\* map[key]++ with the key created at 0 on first use.
IncrementToOne(map, key) ==
    [k \in DOMAIN map \cup {key} |-> IF k = key THEN 1 ELSE map[k]]
Increment(map, key) ==
    [k \in DOMAIN map \cup {key} |->
        IF k = key THEN (IF key \in DOMAIN map THEN map[key] ELSE 0) + 1
        ELSE map[k]]

\* array.reduce((a, b) => a + b, 0), summed by halves.
Sum(s) ==
    LET RECURSIVE Go(_, _)
        Go(from, to) ==
            IF from > to THEN 0
            ELSE IF from = to THEN s[from]
            ELSE Go(from, (from + to) \div 2) + Go((from + to) \div 2 + 1, to)
    IN Go(1, Len(s))

\* Math.round(num / den * 100) for num >= 0, den > 0: halves round up.
RoundHundredths(num, den) == (200 * num + den) \div (2 * den)

\* A quotient the code keeps unrounded is the exact fraction, in lowest terms.
GCD(a, b) ==
    LET RECURSIVE Go(_, _)
        Go(x, y) == IF y = 0 THEN x ELSE Go(y, x % y)
    IN Go(a, b)
Fraction(num, den) ==
    LET g == GCD(num, den)
    IN IF num = 0 THEN [num |-> 0, den |-> 1]
       ELSE [num |-> num \div g, den |-> den \div g]
Zero == Fraction(0, 1)

\* ------------------------------------------------------------ constructor

NewRequests ==
    [total |-> 0, byMethod |-> <<>>, byRoute |-> <<>>, byStatus |-> <<>>,
     responseTimes |-> <<>>, slowRequests |-> <<>>, errors |-> <<>>]

\* getNetworkStats(): the placeholder reads no counters.
GetNetworkStats == [bytesIn |-> 0, bytesOut |-> 0]

\* new PerformanceMonitor() at time t.  Of this.metrics, the fields no
\* method reads or writes after construction are left out.
NewPerformanceMonitor(t) ==
    [metrics |->
        [requests |-> NewRequests,
         resources |->
            [cpu |-> [history |-> <<>>,
                      current |-> [user |-> 0, system |-> 0, idle |-> 100],
                      usage |-> Zero],
             memory |->
                [process |-> [rss |-> 0, heapUsed |-> 0, heapTotal |-> 0,
                              external |-> 0, history |-> <<>>],
                 system |-> [total |-> 0, free |-> 0, used |-> 0,
                             percentage |-> Zero, history |-> <<>>]],
             network |-> [bytesIn |-> 0, bytesOut |-> 0, history |-> <<>>]],
         database |->
            [connections |-> [active |-> 0, idle |-> 0, waiting |-> 0, total |-> 0],
             queries |-> [total |-> 0, slow |-> 0, averageTime |-> Zero,
                          history |-> <<>>],
             performance |-> [averageQueryTime |-> 0, slowQueries |-> <<>>]],
         api |-> [endpoints |-> <<>>]],
     startTime |-> t,
     lastNetworkSample |-> GetNetworkStats]

\* ------------------------------------------------------------ timers

\* The callbacks startMonitoring() schedules.
Samplers == {"cpu", "memory", "network", "cleanup"}

\* What setInterval returns: the n-th interval made for a sampler.
Handle(sampler, n) == [sampler |-> sampler, n |-> n]

\* startMonitoring(): four new intervals, their handles stored over the
\* previous ones.
DoStartMonitoring(tm) ==
    LET n == tm.created + 1
    IN [created |-> n,
        cpuInterval |-> Handle("cpu", n),
        memoryInterval |-> Handle("memory", n),
        networkInterval |-> Handle("network", n),
        cleanupInterval |-> Handle("cleanup", n),
        active |-> tm.active \cup {Handle(k, n) : k \in Samplers}]

\* stopMonitoring(): clearInterval on the four stored handles.
DoStopMonitoring(tm) ==
    [tm EXCEPT !.active = @ \ {tm.cpuInterval, tm.memoryInterval,
                               tm.networkInterval, tm.cleanupInterval}]

\* The timers of a new PerformanceMonitor: the constructor ends with
\* startMonitoring().
NewTimers ==
    DoStartMonitoring([created |-> 0,
                       cpuInterval |-> Handle("cpu", 0),
                       memoryInterval |-> Handle("memory", 0),
                       networkInterval |-> Handle("network", 0),
                       cleanupInterval |-> Handle("cleanup", 0),
                       active |-> {}])

\* An interval of the sampler is due in a live process.
Fires(sampler) == running /\ \E h \in timers.active : h.sampler = sampler

\* ------------------------------------------------------------ ingestion

\* The record pushed to requests.responseTimes.
ResponseTime(data, t) ==
    [timestamp |-> t, duration |-> data.duration, method |-> data.method,
     path |-> data.path, statusCode |-> data.statusCode]

\* The record pushed to requests.slowRequests and to requests.errors.
RequestRecord(data, t) ==
    [id |-> data.id, method |-> data.method, path |-> data.path,
     duration |-> data.duration, statusCode |-> data.statusCode,
     timestamp |-> t, userAgent |-> data.userAgent, ip |-> data.ip,
     user |-> data.user]

IsSlowRequestInclusive(duration) == duration >= SlowRequestMs
IsSlowRequest(duration) == duration > SlowRequestMs

IsErrorAbove(statusCode) == statusCode > ErrorStatus
IsError(statusCode) == statusCode >= ErrorStatus

NewEndpointFastestZero(method) ==
    [method |-> method, totalRequests |-> 0, totalDuration |-> 0,
     averageDuration |-> Zero, statusCodes |-> <<>>, slowest |-> 0,
     fastest |-> 0]
NewEndpoint(method) ==
    [method |-> method, totalRequests |-> 0, totalDuration |-> 0,
     averageDuration |-> Zero, statusCodes |-> <<>>, slowest |-> 0,
     fastest |-> Infinity]

TrackApiEndpoint(eps, path, method, duration, statusCode) ==
    LET old == IF path \in DOMAIN eps THEN eps[path] ELSE NewEndpoint(method)
        n == old.totalRequests + 1
        total == old.totalDuration + duration
        new == [method |-> old.method,
                totalRequests |-> n,
                totalDuration |-> total,
                averageDuration |-> Fraction(total, n),
                statusCodes |-> Increment(old.statusCodes, statusCode),
                slowest |-> IF duration > old.slowest THEN duration ELSE old.slowest,
                fastest |-> IF duration < old.fastest THEN duration ELSE old.fastest]
    IN [p \in DOMAIN eps \cup {path} |-> IF p = path THEN new ELSE eps[p]]

\* recordRequest(requestData) at time t.
DoRecordRequest(m, data, t) ==
    LET reqs == m.metrics.requests
    IN [m EXCEPT
          !.metrics.requests =
             [total |-> reqs.total + 1,
              byMethod |-> Increment(reqs.byMethod, data.method),
              byRoute |-> reqs.byRoute,
              byStatus |-> Increment(reqs.byStatus, data.statusCode),
              responseTimes |->
                 PushBounded(reqs.responseTimes, ResponseTime(data, t),
                             MaxResponseTimes),
              slowRequests |->
                 IF IsSlowRequest(data.duration)
                 THEN PushBounded(reqs.slowRequests, RequestRecord(data, t),
                                  MaxSlowRequests)
                 ELSE reqs.slowRequests,
              errors |->
                 IF IsError(data.statusCode)
                 THEN PushBounded(reqs.errors, RequestRecord(data, t), MaxErrors)
                 ELSE reqs.errors],
          !.metrics.api.endpoints =
             TrackApiEndpoint(@, data.path, data.method, data.duration,
                              data.statusCode)]

\* What the wrapped res.end hands to recordRequest.
RequestData(id, method, path, statusCode, duration) ==
    [id |-> id, method |-> method, path |-> path, statusCode |-> statusCode,
     duration |-> duration, userAgent |-> UserAgent, ip |-> Ip, user |-> User]

\* if (duration > 100)
IsSlowQueryInclusive(duration) == duration >= SlowQueryMs
IsSlowQuery(duration) == duration > SlowQueryMs

\* (averageTime * (total - 1) + duration) / total, total already incremented.
RunningAverageOfTwo(average, total, duration) ==
    IF total = 1 THEN Fraction(duration, 1)
    ELSE Fraction(average.num + duration * average.den, 2 * average.den)
RunningAverage(average, total, duration) ==
    Fraction(average.num * (total - 1) + duration * average.den,
             average.den * total)

\* trackDatabaseQuery(query, duration) at time t; the query text is its
\* length, so substring(0, 100) is the smaller of the length and 100.
DoTrackDatabaseQuery(m, id, queryLength, duration, t) ==
    LET db == m.metrics.database
        total == db.queries.total + 1
        queryData == [query |-> Min(queryLength, MaxQueryText),
                      duration |-> duration, timestamp |-> t, id |-> id]
        slow == IsSlowQuery(duration)
    IN [m EXCEPT
          !.metrics.database.queries =
             [total |-> total,
              slow |-> IF slow THEN db.queries.slow + 1 ELSE db.queries.slow,
              averageTime |-> RunningAverage(db.queries.averageTime, total, duration),
              history |-> Append(db.queries.history, queryData)],
          !.metrics.database.performance.slowQueries =
             IF slow THEN PushBounded(@, queryData, MaxSlowQueries) ELSE @]

\* ------------------------------------------------------------ sampling

\* The periods of the CPU sampler's and of the cleanup's timer, in
\* milliseconds.
CpuIntervalMs == 5000
CleanupIntervalMs == 3600000

\* sampleCpuUsage() at time t, delta being process.cpuUsage(lastCpuSample).
DoSampleCpuUsage(m, delta, t) ==
    LET totalUsage == delta.user + delta.system
        usage == Fraction(totalUsage * 100, 1000000)
    IN [m EXCEPT
          !.metrics.resources.cpu =
             [current |-> [user |-> delta.user, system |-> delta.system,
                           idle |-> Max(0, 1000000 - totalUsage)],
              usage |-> usage,
              history |->
                 PushBounded(@.history,
                             [timestamp |-> t, usage |-> usage,
                              user |-> delta.user, system |-> delta.system],
                             MaxResourceHistory)]]

\* sampleMemoryUsage() at time t, mem being what process.memoryUsage(),
\* os.totalmem() and os.freemem() read.
DoSampleMemoryUsage(m, mem, t) ==
    LET used == mem.total - mem.free
        percentage == Fraction(used * 100, mem.total)
    IN [m EXCEPT
          !.metrics.resources.memory =
             [process |->
                 [rss |-> mem.rss, heapUsed |-> mem.heapUsed,
                  heapTotal |-> mem.heapTotal, external |-> mem.external,
                  history |->
                     PushBounded(@.process.history,
                                 [timestamp |-> t, rss |-> mem.rss,
                                  heapUsed |-> mem.heapUsed,
                                  heapTotal |-> mem.heapTotal],
                                 MaxResourceHistory)],
              system |->
                 [total |-> mem.total, free |-> mem.free, used |-> used,
                  percentage |-> percentage,
                  history |->
                     PushBounded(@.system.history,
                                 [timestamp |-> t, total |-> mem.total,
                                  free |-> mem.free, used |-> used,
                                  percentage |-> percentage],
                                 MaxResourceHistory)]]]

\* sampleNetworkUsage() at time t.
DoSampleNetworkUsage(m, t) ==
    LET currentNetwork == GetNetworkStats
        bytesIn == currentNetwork.bytesIn - m.lastNetworkSample.bytesIn
        bytesOut == currentNetwork.bytesOut - m.lastNetworkSample.bytesOut
    IN [m EXCEPT
          !.metrics.resources.network =
             [bytesIn |-> @.bytesIn + bytesIn,
              bytesOut |-> @.bytesOut + bytesOut,
              history |->
                 PushBounded(@.history,
                             [timestamp |-> t, bytesIn |-> bytesIn,
                              bytesOut |-> bytesOut,
                              bytesInPerSecond |-> Fraction(bytesIn, 15),
                              bytesOutPerSecond |-> Fraction(bytesOut, 15)],
                             MaxResourceHistory)],
          !.lastNetworkSample = currentNetwork]

\* ------------------------------------------------------------ cleanup, reset

\* array.filter(entry => entry.timestamp > oneHourAgo)
NewerOrEqual(s, oneHourAgo) ==
    LET Keep(entry) == entry.timestamp >= oneHourAgo
    IN SelectSeq(s, Keep)
Newer(s, oneHourAgo) ==
    LET Keep(entry) == entry.timestamp > oneHourAgo
    IN SelectSeq(s, Keep)

\* cleanupOldData() at time t.
CleanupKeepsErrors(m, t) ==
    [m EXCEPT
       !.metrics.requests.responseTimes = Newer(@, t - OneHourMs),
       !.metrics.requests.slowRequests = Newer(@, t - OneHourMs),
       !.metrics.database.queries.history = Newer(@, t - OneHourMs)]
DoCleanupOldData(m, t) ==
    [m EXCEPT
       !.metrics.requests.responseTimes = Newer(@, t - OneHourMs),
       !.metrics.requests.slowRequests = Newer(@, t - OneHourMs),
       !.metrics.requests.errors = Newer(@, t - OneHourMs),
       !.metrics.database.queries.history = Newer(@, t - OneHourMs)]

\* reset() at time t.
DoResetEverything(m, t) == NewPerformanceMonitor(t)
DoResetCountersOnly(m, t) ==
    [m EXCEPT
       !.metrics.requests.total = 0,
       !.metrics.requests.byMethod = <<>>,
       !.metrics.requests.byStatus = <<>>,
       !.startTime = t]
DoReset(m, t) ==
    [m EXCEPT
       !.metrics.requests = NewRequests,
       !.metrics.database.queries =
          [total |-> 0, slow |-> 0, averageTime |-> Zero, history |-> <<>>],
       !.metrics.database.performance.slowQueries = <<>>,
       !.startTime = t]

\* ------------------------------------------------------------ sorting

\* array.sort(compare) for a comparator that orders by a numeric key:
\* ascending or descending in the key, elements of equal key in their
\* previous order (Array.prototype.sort is stable).
SortByKey(s, keys, descending) ==
    LET index == [i \in 1..Len(s) |-> i]
        RECURSIVE Go(_, _)
        Go(left, acc) ==
            IF left = {} THEN acc
            ELSE LET k == IF descending
                          THEN CHOOSE x \in left : \A y \in left : y <= x
                          ELSE CHOOSE x \in left : \A y \in left : x <= y
                     Same(i) == keys[i] = k
                     picked == SelectSeq(index, Same)
                 IN Go(left \ {k}, acc \o [j \in 1..Len(picked) |-> s[picked[j]]])
    IN Go({keys[i] : i \in 1..Len(s)}, <<>>)

\* array.map(entry => entry.duration), array.map(entry => entry.timestamp)
Durations(s) == [i \in 1..Len(s) |-> s[i].duration]
Timestamps(s) == [i \in 1..Len(s) |-> s[i].timestamp]

\* ------------------------------------------------------------ getStats

\* A reference to an object of the aggregator, as opposed to a copy of it.
Ref(name) == [ref |-> name]

\* num / den as JavaScript divides, rounded to hundredths.
RoundedQuotient(num, den) ==
    IF den = 0 THEN (IF num = 0 THEN NaN ELSE PosInfinity)
    ELSE RoundHundredths(num, den)

\* sorted[Math.floor(sorted.length * percent / 100)] || 0
PercentileNearestRank(sorted, percent) ==
    LET index == (Len(sorted) * percent + 99) \div 100 - 1
    IN IF index >= 0 /\ index + 1 <= Len(sorted) THEN sorted[index + 1] ELSE 0
Percentile(sorted, percent) ==
    LET index == (Len(sorted) * percent) \div 100
    IN IF index + 1 <= Len(sorted) THEN sorted[index + 1] ELSE 0


\* (errors.length / total) * 100, rounded to hundredths.
ErrorRateAsFraction(reqs) == RoundedQuotient(Len(reqs.errors), reqs.total)
ErrorRate(reqs) == RoundedQuotient(Len(reqs.errors) * 100, reqs.total)


\* array.slice(0, n)
Slice(s, n) == SubSeq(s, 1, Min(n, Len(s)))

\* array.slice(-n)
SliceLast(s, n) == LastN(s, n)

\* getStats() at time t: the returned object.  resources.cpu, .memory and
\* .network, database and api.endpoints are the aggregator's own objects;
\* the two slices are new arrays.
GetStatsResult(m, t) ==
    LET reqs == m.metrics.requests
        durations == Durations(reqs.responseTimes)
        sorted == SortByKey(durations, durations, FALSE)
    IN [uptime |-> t - m.startTime,
        requestRate |-> RoundedQuotient(reqs.total * 1000, t - m.startTime),
        totalRequests |-> reqs.total,
        errorRate |-> ErrorRate(reqs),
        averageResponseTime |->
            IF Len(durations) > 0
            THEN RoundHundredths(Sum(durations), Len(durations))
            ELSE 0,
        responseTimePercentiles |->
            [p50 |-> 100 * Percentile(sorted, 50),
             p95 |-> 100 * Percentile(sorted, 95),
             p99 |-> 100 * Percentile(sorted, 99)],
        resources |-> [cpu |-> Ref("resources.cpu"),
                       memory |-> Ref("resources.memory"),
                       network |-> Ref("resources.network")],
        database |-> Ref("database"),
        api |-> [endpoints |-> Ref("api.endpoints"),
                 slowRequests |-> Slice(reqs.slowRequests, 10),
                 errors |-> Slice(reqs.errors, 10)]]

\* The aggregator after getStats(): map() copies the durations before the
\* sort, so nothing of it is written.
GetStatsCountsCall(m) == [m EXCEPT !.metrics.requests.total = @ + 1]
GetStatsSortsInPlace(m) ==
    [m EXCEPT !.metrics.requests.responseTimes = SortByKey(@, Durations(@), FALSE)]
AfterGetStats(m) == m

\* No object returned by getStats() is held.
NoSnapshot == [none |-> TRUE]

\* What a reader of the object `stats` finds in it when the aggregator is
\* m: a reference is followed to the aggregator's object.
Read(stats, m) ==
    [stats EXCEPT
       !.resources =
          [cpu |-> IF @.cpu = Ref("resources.cpu")
                   THEN m.metrics.resources.cpu ELSE @.cpu,
           memory |-> IF @.memory = Ref("resources.memory")
                      THEN m.metrics.resources.memory ELSE @.memory,
           network |-> IF @.network = Ref("resources.network")
                       THEN m.metrics.resources.network ELSE @.network],
       !.database = IF @ = Ref("database") THEN m.metrics.database ELSE @,
       !.api.endpoints = IF @ = Ref("api.endpoints")
                         THEN m.metrics.api.endpoints ELSE @]

\* The write a holder of the object `stats` makes to it.  Through a
\* reference the write lands in the aggregator's object; in a copy it
\* lands in the held object alone.
Mutations == {"resources.cpu.history = []",
              "api.endpoints[path].totalRequests = 0",
              "database.queries.total = 0"}

WritesThrough(stats, mutation) ==
    CASE mutation = "resources.cpu.history = []" ->
            stats.resources.cpu = Ref("resources.cpu")
      [] mutation = "api.endpoints[path].totalRequests = 0" ->
            stats.api.endpoints = Ref("api.endpoints")
      [] mutation = "database.queries.total = 0" ->
            stats.database = Ref("database")

\* The aggregator after a write through a reference.
DoMutate(m, mutation, path) ==
    CASE mutation = "resources.cpu.history = []" ->
            [m EXCEPT !.metrics.resources.cpu.history = <<>>]
      [] mutation = "api.endpoints[path].totalRequests = 0" ->
            [m EXCEPT !.metrics.api.endpoints[path].totalRequests = 0]
      [] mutation = "database.queries.total = 0" ->
            [m EXCEPT !.metrics.database.queries.total = 0]

\* The held object after a write to a copy in it.
MutateCopy(stats, mutation, path) ==
    CASE mutation = "resources.cpu.history = []" ->
            [stats EXCEPT !.resources.cpu.history = <<>>]
      [] mutation = "api.endpoints[path].totalRequests = 0" ->
            [stats EXCEPT !.api.endpoints[path].totalRequests = 0]
      [] mutation = "database.queries.total = 0" ->
            [stats EXCEPT !.database.queries.total = 0]

\* ------------------------------------------------------------ histories

\* One call of an ingestion or sampling method, with the time of the call
\* and what it is given.
RequestCall(t, id, r) ==
    [call |-> "recordRequest", t |-> t,
     data |-> RequestData(id, r.method, r.path, r.statusCode, r.duration)]
QueryCall(t, id, q) ==
    [call |-> "trackDatabaseQuery", t |-> t, id |-> id, length |-> q.length,
     duration |-> q.duration]
CpuCall(t, delta) == [call |-> "sampleCpuUsage", t |-> t, delta |-> delta]
MemoryCall(t, mem) == [call |-> "sampleMemoryUsage", t |-> t, mem |-> mem]
NetworkCall(t) == [call |-> "sampleNetworkUsage", t |-> t]

Apply(m, c) ==
    CASE c.call = "recordRequest" -> DoRecordRequest(m, c.data, c.t)
      [] c.call = "trackDatabaseQuery" ->
            DoTrackDatabaseQuery(m, c.id, c.length, c.duration, c.t)
      [] c.call = "sampleCpuUsage" -> DoSampleCpuUsage(m, c.delta, c.t)
      [] c.call = "sampleMemoryUsage" -> DoSampleMemoryUsage(m, c.mem, c.t)
      [] c.call = "sampleNetworkUsage" -> DoSampleNetworkUsage(m, c.t)

\* The aggregator m after the calls calls[from], ..., calls[to], in order
\* (the first half is computed before the second is begun).
RECURSIVE After(_, _, _, _)
After(m, calls, from, to) ==
    IF from > to THEN m
    ELSE IF from = to THEN Apply(m, calls[from])
    ELSE LET mid == (from + to) \div 2
             half == After(m, calls, from, mid)
         IN IF half.startTime = m.startTime
            THEN After(half, calls, mid + 1, to)
            ELSE half

Run(calls) == After(NewPerformanceMonitor(0), calls, 1, Len(calls))

\* The request records of the recordRequest calls that end `calls`.
BurstOf(calls) ==
    LET others == {i \in 1..Len(calls) : calls[i].call # "recordRequest"}
        first == IF others = {} THEN 1
                 ELSE 1 + CHOOSE i \in others : \A j \in others : j <= i
    IN [i \in 1..(Len(calls) - first + 1) |->
           RequestRecord(calls[first + i - 1].data, calls[first + i - 1].t)]

\* A process that has served a little of everything: three requests, of
\* which two failed and one was slow, three queries, one sample of each
\* resource.
Seasoned ==
    <<RequestCall(0, 1, [method |-> "GET", path |-> "/api/posts",
                         statusCode |-> 500, duration |-> 999]),
      RequestCall(1000, 2, [method |-> "GET", path |-> "/api/posts",
                            statusCode |-> 200, duration |-> 1000]),
      RequestCall(2000, 3, [method |-> "GET", path |-> "/health",
                            statusCode |-> 500, duration |-> 1500]),
      QueryCall(2000, 4, [length |-> 150, duration |-> 100]),
      QueryCall(2000, 5, [length |-> 20, duration |-> 101]),
      QueryCall(3000, 6, [length |-> 20, duration |-> 250]),
      CpuCall(3000, [user |-> 600000, system |-> 300000]),
      MemoryCall(3000, [rss |-> 90, heapUsed |-> 45, heapTotal |-> 60,
                        external |-> 2, total |-> 8000, free |-> 1000]),
      NetworkCall(3000)>>

\* A process whose slow-query list and resource histories are full and
\* that has then served n slow, failed requests in a row.
Full(n) ==
    [i \in 1..(MaxSlowQueries + 3 * MaxResourceHistory + n) |->
        IF i <= MaxSlowQueries
        THEN QueryCall(0, i, [length |-> 20, duration |-> 101])
        ELSE IF i <= MaxSlowQueries + MaxResourceHistory
        THEN CpuCall(0, [user |-> 600000, system |-> 300000])
        ELSE IF i <= MaxSlowQueries + 2 * MaxResourceHistory
        THEN MemoryCall(0, [rss |-> 90, heapUsed |-> 45, heapTotal |-> 60,
                            external |-> 2, total |-> 8000, free |-> 1000])
        ELSE IF i <= MaxSlowQueries + 3 * MaxResourceHistory
        THEN NetworkCall(0)
        ELSE RequestCall(0, i, [method |-> "GET", path |-> "/api/posts",
                                statusCode |-> 500, duration |-> 1001])]

\* The same process with n requests served over more than an hour: the
\* last ten within the hour before the last one, the twenty before them
\* exactly an hour before it, all others earlier.
Aged(n) ==
    LET full == Full(n)
    IN [i \in 1..Len(full) |->
           IF i <= Len(full) - 30 THEN full[i]
           ELSE IF i <= Len(full) - 10 THEN [full[i] EXCEPT !.t = 1000]
           ELSE [full[i] EXCEPT !.t = OneHourMs + 1000]]

\* ------------------------------------------------------------ monitoring.js

\* null
Null == "null"

\* const metrics = {...}: the store of middleware/monitoring.js at load.
NewMetrics ==
    [requests |-> [total |-> 0, success |-> 0, errors |-> 0, byRoute |-> <<>>],
     performance |-> [averageResponseTime |-> 0, slowestRequests |-> <<>>,
                      fastestRequests |-> <<>>],
     system |-> [memoryUsage |-> <<>>, cpuUsage |-> <<>>, lastUpdate |-> Null]]

\* The capacities of the slowest and fastest lists and of the memory and
\* CPU samples, and the time above which a request is listed as slow.
MaxSlowest == 10
MaxFastest == 10
MaxSystemSamples == 100
SlowestAboveMs == 1000

\* metrics.requests.byRoute[route] when the route is first seen.
NewRouteMetrics ==
    [count |-> 0, totalTime |-> 0, averageTime |-> Zero, errors |-> 0,
     successes |-> 0]

\* The entry pushed to slowestRequests and fastestRequests.
Observation(route, time, statusCode, t) ==
    [route |-> route, time |-> time, timestamp |-> t, status |-> statusCode]
Times(s) == [i \in 1..Len(s) |-> s[i].time]

\* push, sort by descending time, pop when more than ten are held.
PushSlowest(s, entry) ==
    LET pushed == Append(s, entry)
        sorted == SortByKey(pushed, Times(pushed), TRUE)
    IN IF Len(sorted) > MaxSlowest THEN SubSeq(sorted, 1, Len(sorted) - 1)
       ELSE sorted

\* push, sort by ascending time, shift when more than ten are held.
PushFastest(s, entry) ==
    LET pushed == Append(s, entry)
        sorted == SortByKey(pushed, Times(pushed), FALSE)
    IN IF Len(sorted) > MaxFastest THEN Tail(sorted) ELSE sorted

\* The callback of responseTimeMiddleware for a response of the route that
\* took `time` milliseconds, at time t.
DoObserve(m, route, time, statusCode, t) ==
    LET byRoute == m.requests.byRoute
        old == IF route \in DOMAIN byRoute THEN byRoute[route] ELSE NewRouteMetrics
        failed == statusCode >= 400
        routeMetrics ==
           [count |-> old.count + 1,
            totalTime |-> old.totalTime + time,
            averageTime |-> Fraction(old.totalTime + time, old.count + 1),
            errors |-> IF failed THEN old.errors + 1 ELSE old.errors,
            successes |-> IF failed THEN old.successes ELSE old.successes + 1]
        entry == Observation(route, time, statusCode, t)
    IN [m EXCEPT
          !.requests =
             [total |-> @.total + 1,
              success |-> IF failed THEN @.success ELSE @.success + 1,
              errors |-> IF failed THEN @.errors + 1 ELSE @.errors,
              byRoute |-> [r \in DOMAIN byRoute \cup {route} |->
                              IF r = route THEN routeMetrics ELSE byRoute[r]]],
          !.performance.slowestRequests =
             IF time > SlowestAboveMs THEN PushSlowest(@, entry) ELSE @,
          !.performance.fastestRequests = PushFastest(@, entry)]

\* clearMetrics()
DoClearTotalsOnly(m) ==
    [m EXCEPT !.requests.total = 0, !.requests.success = 0, !.requests.errors = 0,
              !.performance = NewMetrics.performance]
DoClearMetrics(m) ==
    [m EXCEPT !.requests = NewMetrics.requests,
              !.performance = NewMetrics.performance]

\* logMemoryUsage() at time t for a reading of process.memoryUsage(),
\* os.totalmem(), os.freemem() and process.cpuUsage().
DoLogMemoryUsage(m, reading, t) ==
    [m EXCEPT
       !.system =
          [memoryUsage |->
              PushBounded(@.memoryUsage,
                          [timestamp |-> t, heapUsed |-> reading.heapUsed,
                           heapTotal |-> reading.heapTotal, rss |-> reading.rss,
                           systemMemory |->
                              [total |-> reading.total, free |-> reading.free,
                               used |-> reading.total - reading.free,
                               percentage |->
                                  Fraction((reading.total - reading.free) * 100,
                                           reading.total)]],
                          MaxSystemSamples),
           cpuUsage |->
              PushBounded(@.cpuUsage,
                          [timestamp |-> t, user |-> reading.user,
                           system |-> reading.system],
                          MaxSystemSamples),
           lastUpdate |-> t]]

\* What setInterval returns for a callback, and a number where a timer is
\* expected.
Timer(callback) == [callback |-> callback]
Number(n) == [number |-> n]

\* setInterval(logMemoryUsage, ...) and setInterval(checkResourceThresholds,
\* ...), made when the module is loaded; what they return is not kept.
ModuleIntervals == {Timer("logMemoryUsage"), Timer("checkResourceThresholds")}

\* const memoryInterval = NODE_ENV === 'production' ? 5 * 60 * 1000 : 30 * 1000
MemoryInterval(env) ==
    IF env = "production" THEN Number(5 * 60 * 1000) ELSE Number(30 * 1000)

\* clearInterval(value): the interval that is `value`, if there is one, is
\* removed from those the event loop holds.
ClearInterval(held, value) == held \ {value}

\* ------------------------------------------------------------ alert engine

\* new PerformanceAlertEngine()
NewPerformanceAlertEngine ==
    [activeAlerts |-> <<>>, alertHistory |-> <<>>, escalationTimers |-> <<>>]

\* alertEscalation[name]: the fields startEscalation reads of the policy,
\* immediate and steps.  Only 'gradual' has steps, no policy has a field
\* named immediate, and a name that is no policy gives undefined.
NoPolicy == [policy |-> FALSE]
AlertEscalation(name) ==
    CASE name = "immediate" ->
            [policy |-> TRUE, immediate |-> FALSE, delay |-> 0,
             channels |-> <<"slack", "email", "sms">>, steps |-> <<>>]
      [] name = "gradual" ->
            [policy |-> TRUE, immediate |-> FALSE, delay |-> 0, channels |-> <<>>,
             steps |-> <<[delay |-> 0, channels |-> <<"slack">>],
                         [delay |-> 1800, channels |-> <<"email">>],
                         [delay |-> 3600, channels |-> <<"sms">>]>>]
      [] name = "performance" ->
            [policy |-> TRUE, immediate |-> FALSE, delay |-> 0, channels |-> <<>>,
             steps |-> <<>>]
      [] OTHER -> NoPolicy

\* `${metricName}_${threshold.severity}`, kept as the pair it is made of.
AlertKey(metricName, severity) == <<metricName, severity>>

\* shouldTriggerAlert(value, threshold)
ShouldTriggerAlert(value, threshold) ==
    IF threshold.direction = "above" THEN value > threshold.value
    ELSE value < threshold.value

\* A check that takes the alert of every call for a new one.
AlwaysNew(activeAlerts, alertKey) == TRUE

\* !this.activeAlerts.has(alertKey)
IsNewAlert(activeAlerts, alertKey) == alertKey \notin DOMAIN activeAlerts

\* sendAlert(channel, alert) for each channel, in order: the channels the
\* switch knows send a notification, any other does nothing.  A
\* notification notes the alert object it is about, how many history
\* entries had been written when it was sent, and what sent it.
Channels == {"slack", "email", "sms", "pagerduty"}
SendAlerts(log, channels, alert, written, by, t) ==
    LET known == SelectSeq(channels, LAMBDA channel : channel \in Channels)
    IN log \o [i \in 1..Len(known) |->
                  [channel |-> known[i], occurrence |-> alert.occurrence,
                   metric |-> alert.metric, written |-> written, by |-> by,
                   at |-> t]]

\* The timeouts startEscalation(alertKey, alert) sets at time t: each
\* callback holds the key and the alert object it was started for.
StartEscalation(alertKey, alert, t) ==
    LET policy == AlertEscalation(alert.threshold.escalation)
    IN IF policy = NoPolicy THEN {}
       ELSE IF policy.immediate
       THEN {[alertKey |-> alertKey, alert |-> alert, step |-> 0,
              channels |-> policy.channels, due |-> t + policy.delay]}
       ELSE {[alertKey |-> alertKey, alert |-> alert, step |-> i,
              channels |-> policy.steps[i].channels,
              due |-> t + policy.steps[i].delay] : i \in 1..Len(policy.steps)}

\* stopEscalation(alertKey): the timeouts stored under the key in
\* escalationTimers are cleared and the key is deleted.
StopEscalation(held, escalationTimers, alertKey) ==
    IF alertKey \in DOMAIN escalationTimers
    THEN held \ escalationTimers[alertKey]
    ELSE held

\* The engine, the timeouts and the notifications after
\* checkMetric(metricName, value, threshold) at time t.  An alert object is
\* told from every other by the number of history entries written before it
\* was made.
DoCheckMetric(e, held, log, metricName, value, threshold, t) ==
    LET alertKey == AlertKey(metricName, threshold.severity)
    IN IF ShouldTriggerAlert(value, threshold)
       THEN IF IsNewAlert(e.activeAlerts, alertKey)
            THEN LET alert == [metric |-> metricName, value |-> value,
                               threshold |-> threshold, startTime |-> t,
                               triggeredAt |-> t,
                               occurrence |-> Len(e.alertHistory) + 1]
                 IN [engine |->
                        [e EXCEPT
                           !.activeAlerts =
                              [k \in DOMAIN @ \cup {alertKey} |->
                                  IF k = alertKey THEN alert ELSE @[k]],
                           !.alertHistory =
                              Append(@, [alert |-> alert, type |-> "triggered",
                                         timestamp |-> t])],
                     timeouts |->
                        IF threshold.escalation # Null
                        THEN held \cup StartEscalation(alertKey, alert, t)
                        ELSE held,
                     sent |-> SendAlerts(log, threshold.actions, alert,
                                         Len(e.alertHistory), "triggerAlert", t),
                     outcome |-> "triggered"]
            ELSE [engine |-> e, timeouts |-> held, sent |-> log,
                  outcome |-> "active"]
       ELSE IF alertKey \in DOMAIN e.activeAlerts
            THEN [engine |->
                     [e EXCEPT
                        !.escalationTimers =
                           [k \in DOMAIN @ \ {alertKey} |-> @[k]],
                        !.alertHistory =
                           Append(@, [alert |-> e.activeAlerts[alertKey],
                                      type |-> "cleared", timestamp |-> t]),
                        !.activeAlerts =
                           [k \in DOMAIN @ \ {alertKey} |-> @[k]]],
                  timeouts |-> StopEscalation(held, e.escalationTimers, alertKey),
                  sent |-> log,
                  outcome |-> "cleared"]
            ELSE [engine |-> e, timeouts |-> held, sent |-> log,
                  outcome |-> "none"]

\* The callback of an escalation timeout runs at time t: it sends to the
\* step's channels, for the alert object it holds, when the engine has an
\* active alert under the key.
DoEscalationStep(e, log, timer, t) ==
    IF timer.alertKey \in DOMAIN e.activeAlerts
    THEN SendAlerts(log, timer.channels, timer.alert, Len(e.alertHistory),
                    "escalation", t)
    ELSE log

\* ------------------------------------------------------------ Init

\* The last step: a method call, or a route with the request it was sent
\* and the status and body it answered.
None == [none |-> TRUE]
Done(op) == [op |-> op, request |-> None, status |-> 0, body |-> None]
Answered(op, request, status, body) ==
    [op |-> op, request |-> request, status |-> status, body |-> body]

\* The secret the deployment may configure; NoKey is an undefined value.
NoKey == "undefined"
Secret == "secret"
ApiKeys == {NoKey, Secret, "wrong"}

\* The durations of the trackDatabaseQuery calls of `calls`, in order.
TrackedBy(calls) ==
    LET IsQuery(c) == c.call = "trackDatabaseQuery"
        queries == SelectSeq(calls, IsQuery)
    IN [i \in 1..Len(queries) |-> queries[i].duration]

\* The store of middleware/monitoring.js after the observations, in order.
RECURSIVE Observing(_, _)
Observing(observations, n) ==
    IF n = 0 THEN NewMetrics
    ELSE DoObserve(Observing(observations, n - 1), observations[n].route,
                   observations[n].time, observations[n].statusCode, 0)

\* Ten requests of one route, of 10 ms to 100 ms, every second one failed.
Busy ==
    [i \in 1..MaxFastest |->
        [route |-> "GET /api/posts", time |-> 10 * i,
         statusCode |-> IF i % 2 = 0 THEN 500 ELSE 200]]

\* The process after the calls of `calls` and the observations of
\* `observations`.
InitWith(calls, observations) ==
    /\ pm = Run(calls)
    /\ now = IF Len(calls) = 0 THEN 0 ELSE calls[Len(calls)].t
    /\ envKey \in {NoKey, Secret}
    /\ nextId = Len(calls) + 1
    /\ snapshot = NoSnapshot
    /\ last = Done("constructor")
    /\ burst = BurstOf(calls)
    /\ steps = 0
    /\ timers = NewTimers
    /\ running = TRUE
    /\ finalized = Cardinality({i \in 1..Len(calls) : calls[i].call = "recordRequest"})
    /\ tracked = TrackedBy(calls)
    /\ cleanedAt = 0
    /\ second = NewPerformanceMonitor(0)
    /\ metrics = Observing(observations, Len(observations))
    /\ intervals = ModuleIntervals
    /\ engine = NewPerformanceAlertEngine
    /\ timeouts = {}
    /\ sent = <<>>
    /\ observed = [i \in 1..Len(observations) |-> observations[i].time]

\* The process after the calls of `calls`, nothing having passed through
\* responseTimeMiddleware.
InitAfter(calls) == InitWith(calls, <<>>)

\* A process just started, or one that has served for a while.
Init == \E calls \in {<<>>, Seasoned} : InitAfter(calls)

\* A process at the capacity of one of the request histories.
InitFull ==
    \/ \E n \in {MaxSlowRequests, MaxErrors, MaxResponseTimes} : InitAfter(Full(n))
    \/ InitAfter(Aged(MaxResponseTimes))

\* ------------------------------------------------------------ the aggregator

\* Time passes.
Tick(delta) ==
    /\ now' = now + delta
    /\ last' = Done("tick")
    /\ steps' = steps + 1
    /\ UNCHANGED <<pm, envKey, nextId, snapshot, burst, timers, running, finalized,
                   tracked, cleanedAt>>
    /\ UNCHANGED elsewhere

\* A response is finalized: the wrapped res.end calls recordRequest.
RecordRequest(r) ==
    LET c == RequestCall(now, nextId, r)
    IN /\ pm' = Apply(pm, c)
       /\ nextId' = nextId + 1
       /\ last' = Done("recordRequest")
       /\ burst' = Append(burst, RequestRecord(c.data, now))
       /\ steps' = steps + 1
       /\ finalized' = finalized + 1
       /\ UNCHANGED <<now, envKey, snapshot, timers, running, tracked, cleanedAt>>
       /\ UNCHANGED elsewhere

\* Every other operation ends the run of recordRequest calls.
Other(op) ==
    /\ last' = op
    /\ burst' = <<>>
    /\ steps' = steps + 1
    /\ tracked' =
          IF op.op = "trackDatabaseQuery" THEN Append(tracked, op.request.duration)
          ELSE IF op.op = "reset" \/ (op.op = "POST /performance/reset" /\ op.status = 200)
          THEN <<>>
          ELSE tracked
    /\ cleanedAt' = IF op.op = "cleanupOldData" THEN now ELSE cleanedAt
    /\ UNCHANGED <<now, envKey, timers, running, finalized>>
    /\ UNCHANGED elsewhere

TrackDatabaseQuery(q) ==
    /\ pm' = Apply(pm, QueryCall(now, nextId, q))
    /\ nextId' = nextId + 1
    /\ Other(Answered("trackDatabaseQuery", q, 0, None))
    /\ UNCHANGED snapshot

SampleCpuUsage(delta) ==
    /\ Fires("cpu")
    /\ pm' = Apply(pm, CpuCall(now, delta))
    /\ Other(Answered("sampleCpuUsage", delta, 0, None))
    /\ UNCHANGED <<nextId, snapshot>>

SampleMemoryUsage(mem) ==
    /\ Fires("memory")
    /\ pm' = Apply(pm, MemoryCall(now, mem))
    /\ Other(Done("sampleMemoryUsage"))
    /\ UNCHANGED <<nextId, snapshot>>

SampleNetworkUsage ==
    /\ Fires("network")
    /\ pm' = Apply(pm, NetworkCall(now))
    /\ Other(Done("sampleNetworkUsage"))
    /\ UNCHANGED <<nextId, snapshot>>

CleanupOldData ==
    /\ Fires("cleanup")
    /\ pm' = DoCleanupOldData(pm, now)
    /\ Other(Done("cleanupOldData"))
    /\ UNCHANGED <<nextId, snapshot>>

Reset ==
    /\ pm' = DoReset(pm, now)
    /\ Other(Done("reset"))
    /\ UNCHANGED <<nextId, snapshot>>

\* A caller inside the process calls getStats() and keeps the object; the
\* step notes whether the call comes straight after another getStats().
GetStats ==
    /\ snapshot' = GetStatsResult(pm, now)
    /\ pm' = AfterGetStats(pm)
    /\ Other(Answered("getStats", [repeats |-> last.op = "getStats"], 0, None))
    /\ UNCHANGED nextId

\* The holder of the object getStats() returned writes to it.
CallerMutates(mutation) ==
    /\ snapshot # NoSnapshot
    /\ \E path \in IF mutation = "api.endpoints[path].totalRequests = 0"
                   THEN DOMAIN pm.metrics.api.endpoints ELSE {""} :
          IF WritesThrough(snapshot, mutation)
          THEN /\ pm' = DoMutate(pm, mutation, path)
               /\ UNCHANGED snapshot
          ELSE /\ snapshot' = MutateCopy(snapshot, mutation, path)
               /\ UNCHANGED pm
    /\ Other(Done("callerMutates"))
    /\ UNCHANGED nextId

\* ------------------------------------------------------------ the routes

\* A query parameter that is not given.
NoParam == 0

\* let list = history; if (statusCode) list = list.filter(...);
\* if (method) list = list.filter(...): the history itself when no filter
\* is given, a new array otherwise.
Filtered(history, query) ==
    LET Matches(e) ==
            /\ query.statusCode # NoParam => e.statusCode = query.statusCode
            /\ query.method # "" => e.method = query.method
    IN SelectSeq(history, Matches)

IsFiltered(query) == query.statusCode # NoParam \/ query.method # ""

\* requests.sort((a, b) => sortOrder === 'asc' ? a[sortBy] - b[sortBy]
\*                                             : b[sortBy] - a[sortBy])
SortRequests(list, query) ==
    IF query.sortBy = "duration"
    THEN SortByKey(list, Durations(list), query.sortOrder # "asc")
    ELSE SortByKey(list, Timestamps(list), query.sortOrder # "asc")

Smallest(s) == CHOOSE x \in {s[i] : i \in 1..Len(s)} :
                   \A i \in 1..Len(s) : x <= s[i]
Largest(s) == CHOOSE x \in {s[i] : i \in 1..Len(s)} :
                  \A i \in 1..Len(s) : x >= s[i]

\* The summary GET /performance/requests computes over the listed requests.
RequestsSummary(listed) ==
    LET durations == Durations(listed)
        sorted == SortByKey(durations, durations, FALSE)
    IN [total |-> Len(listed),
        average |-> IF Len(durations) > 0
                    THEN RoundHundredths(Sum(durations), Len(durations)) ELSE 0,
        min |-> IF Len(durations) > 0 THEN 100 * Smallest(durations) ELSE 0,
        max |-> IF Len(durations) > 0 THEN 100 * Largest(durations) ELSE 0,
        percentiles |-> [p50 |-> 100 * Percentile(sorted, 50),
                         p95 |-> 100 * Percentile(sorted, 95),
                         p99 |-> 100 * Percentile(sorted, 99)]]

\* GET /performance/stats
GetPerformanceStats ==
    /\ pm' = AfterGetStats(pm)
    /\ Other(Answered("GET /performance/stats", None, 200,
                      Read(GetStatsResult(pm, now), pm)))
    /\ UNCHANGED <<nextId, snapshot>>

\* The response-time history after GET /performance/requests: the sort is
\* in place, so with no filter it sorts the history itself.
RequestsAfterListing(history, query) ==
    IF IsFiltered(query) THEN history ELSE SortRequests(history, query)

\* GET /performance/requests?statusCode=&method=&sortBy=&sortOrder=&limit=
GetPerformanceRequests(query) ==
    LET history == pm.metrics.requests.responseTimes
        listed == Slice(SortRequests(Filtered(history, query), query), query.limit)
    IN /\ pm' = [pm EXCEPT !.metrics.requests.responseTimes =
                              RequestsAfterListing(history, query)]
       /\ Other(Answered("GET /performance/requests", query, 200,
                         [requests |-> listed,
                          summary |-> RequestsSummary(listed)]))
       /\ UNCHANGED <<nextId, snapshot>>

\* GET /performance/slow-requests?limit=&threshold=
\* filter() makes the array that is sorted.
GetPerformanceSlowRequests(query) ==
    LET AtLeast(e) == e.duration >= query.threshold
        slow == SelectSeq(pm.metrics.requests.slowRequests, AtLeast)
        listed == Slice(SortByKey(slow, Durations(slow), TRUE), query.limit)
    IN /\ Other(Answered("GET /performance/slow-requests", query, 200,
                         [slowRequests |-> listed, count |-> Len(listed),
                          threshold |-> query.threshold]))
       /\ UNCHANGED <<pm, nextId, snapshot>>

\* The per-status summary GET /performance/errors computes.
ErrorSummary(listed) ==
    LET RECURSIVE Go(_, _)
        Go(i, acc) == IF i > Len(listed) THEN acc
                      ELSE Go(i + 1, Increment(acc, listed[i].statusCode))
    IN Go(1, <<>>)

\* The error history after GET /performance/errors: the sort is in place,
\* so with no filter it sorts the history itself.
ErrorsAfterListing(history, query) ==
    IF IsFiltered(query) THEN history ELSE SortByKey(history, Timestamps(history), TRUE)

\* GET /performance/errors?limit=&statusCode=&method=
GetPerformanceErrors(query) ==
    LET history == pm.metrics.requests.errors
        errors == Filtered(history, query)
        listed == Slice(SortByKey(errors, Timestamps(errors), TRUE), query.limit)
    IN /\ pm' = [pm EXCEPT !.metrics.requests.errors =
                              ErrorsAfterListing(history, query)]
       /\ Other(Answered("GET /performance/errors", query, 200,
                         [errors |-> listed, summary |-> ErrorSummary(listed),
                          total |-> Len(listed)]))
       /\ UNCHANGED <<nextId, snapshot>>

\* The arrangements of the keys of an object in a sequence. Object.entries
\* lists the paths in the order of their first request, which the map of
\* aggregates does not hold: every order is considered.
Orders(keys) ==
    {order \in [1..Cardinality(keys) -> keys] :
        \A i, j \in 1..Cardinality(keys) : order[i] = order[j] => i = j}

\* a[sortBy] || 0 for the numeric fields of an aggregate, as a fraction.
SortValue(endpoint, sortBy) ==
    CASE sortBy = "totalRequests" -> Fraction(endpoint.totalRequests, 1)
      [] sortBy = "totalDuration" -> Fraction(endpoint.totalDuration, 1)
      [] sortBy = "averageDuration" -> endpoint.averageDuration
      [] OTHER -> Zero

\* a < b for fractions with positive denominators.
Less(a, b) == a.num * b.den < b.num * a.den

\* The path at index i of an array of entries, or null past its end:
\* endpoints[i]?.path || null
PathAt(paths, i) == IF i \in 1..Len(paths) THEN paths[i] ELSE Null

\* GET /performance/endpoints: Object.entries(...).map(...) makes the array
\* that is sorted by the requested field; the summary names its first and
\* its last entry.
GetPerformanceEndpoints(query) ==
    LET endpoints == pm.metrics.api.endpoints
        RECURSIVE Total(_)
        Total(left) == IF left = {} THEN 0
                       ELSE LET p == CHOOSE x \in left : TRUE
                            IN endpoints[p].totalRequests + Total(left \ {p})
        Value(p) == SortValue(endpoints[p], query.sortBy)
        Position(p) == Cardinality({q \in DOMAIN endpoints : Less(Value(q), Value(p))})
    IN /\ \E entries \in Orders(DOMAIN endpoints) :
             LET keys == [i \in 1..Len(entries) |-> Position(entries[i])]
                 sorted == SortByKey(entries, keys, query.sortOrder # "asc")
             IN Other(Answered("GET /performance/endpoints", query, 200,
                               [endpoints |-> sorted,
                                totalEndpoints |-> Len(sorted),
                                totalRequests |-> Total(DOMAIN endpoints),
                                slowestEndpoint |-> PathAt(sorted, 1),
                                fastestEndpoint |-> PathAt(sorted, Len(sorted)),
                                sortBy |-> query.sortBy,
                                sortOrder |-> query.sortOrder]))
       /\ UNCHANGED <<pm, nextId, snapshot>>

\* GET /performance/database: both sorts are in place, on the aggregator's
\* own arrays.
GetPerformanceDatabase ==
    LET database == pm.metrics.database
        history == SortByKey(database.queries.history,
                             Timestamps(database.queries.history), TRUE)
        slowQueries == SortByKey(database.performance.slowQueries,
                                 Durations(database.performance.slowQueries), TRUE)
        recent == Slice(history, 20)
        queryTimes == Durations(recent)
    IN /\ pm' = [pm EXCEPT
                    !.metrics.database.queries.history = history,
                    !.metrics.database.performance.slowQueries = slowQueries]
       /\ Other(Answered("GET /performance/database", None, 200,
                         [total |-> database.queries.total,
                          recent |-> recent,
                          slow |-> Slice(slowQueries, 10),
                          averageQueryTime |->
                             IF Len(queryTimes) > 0
                             THEN RoundHundredths(Sum(queryTimes), Len(queryTimes))
                             ELSE 0]))
       /\ UNCHANGED <<nextId, snapshot>>

\* GET /performance/resources: slice(-20) copies.
GetPerformanceResources ==
    LET resources == pm.metrics.resources
    IN /\ Other(Answered("GET /performance/resources", None, 200,
                         [cpu |-> SliceLast(resources.cpu.history, 20),
                          process |-> SliceLast(resources.memory.process.history, 20),
                          system |-> SliceLast(resources.memory.system.history, 20),
                          network |-> SliceLast(resources.network.history, 20)]))
       /\ UNCHANGED <<pm, nextId, snapshot>>

\* The alerts GET /performance/realtime derives from getStats(): the four
\* checks in the order the route makes them, each pushing its alert when
\* its threshold is exceeded.
Alert(type, severity) == [type |-> type, severity |-> severity]
AlertsAtThreshold(stats) ==
    (IF stats.errorRate >= 5 * 100
     THEN <<Alert("error_rate", "warning")>> ELSE <<>>)
    \o (IF stats.resources.cpu.usage.num >= 80 * stats.resources.cpu.usage.den
        THEN <<Alert("cpu_usage", "warning")>> ELSE <<>>)
    \o (IF stats.averageResponseTime >= 1000 * 100
        THEN <<Alert("response_time", "warning")>> ELSE <<>>)
    \o (IF stats.responseTimePercentiles.p99 >= 5000 * 100
        THEN <<Alert("response_time", "critical")>> ELSE <<>>)
Alerts(stats) ==
    (IF stats.errorRate > 5 * 100
     THEN <<Alert("error_rate", "warning")>> ELSE <<>>)
    \o (IF stats.resources.cpu.usage.num > 80 * stats.resources.cpu.usage.den
        THEN <<Alert("cpu_usage", "warning")>> ELSE <<>>)
    \o (IF stats.averageResponseTime > 1000 * 100
        THEN <<Alert("response_time", "warning")>> ELSE <<>>)
    \o (IF stats.responseTimePercentiles.p99 > 5000 * 100
        THEN <<Alert("response_time", "critical")>> ELSE <<>>)

\* GET /performance/realtime: the status starts as 'healthy' and every check
\* that pushes an alert assigns it, so it ends as the last alert's severity.
GetPerformanceRealtime ==
    LET alerts == Alerts(Read(GetStatsResult(pm, now), pm))
    IN /\ pm' = AfterGetStats(pm)
       /\ Other(Answered("GET /performance/realtime", None, 200,
                         [status |-> IF alerts = <<>> THEN "healthy"
                                     ELSE alerts[Len(alerts)].severity,
                          alerts |-> alerts]))
       /\ UNCHANGED <<nextId, snapshot>>

\* if (apiKey !== process.env.MONITORING_API_KEY) return 401
Authorized(apiKey, configured) == apiKey = configured

\* POST /performance/reset with body {apiKey}
PostPerformanceReset(apiKey) ==
    /\ IF Authorized(apiKey, envKey)
       THEN /\ pm' = DoReset(pm, now)
            /\ Other(Answered("POST /performance/reset", [apiKey |-> apiKey], 200,
                              [success |-> TRUE]))
       ELSE /\ pm' = pm
            /\ Other(Answered("POST /performance/reset", [apiKey |-> apiKey], 401,
                              [success |-> FALSE]))
    /\ UNCHANGED <<nextId, snapshot>>

\* ------------------------------------------------------------ Next

RequestsQueries ==
    {[statusCode |-> NoParam, method |-> "", sortBy |-> "timestamp",
      sortOrder |-> "desc", limit |-> 50],
     [statusCode |-> 500, method |-> "", sortBy |-> "duration",
      sortOrder |-> "asc", limit |-> 50]}
SlowRequestsQueries == {[threshold |-> 1000, limit |-> 20]}
\* const { sortBy = 'totalRequests', sortOrder = 'desc' } = req.query
EndpointsQueries ==
    {[sortBy |-> "totalRequests", sortOrder |-> "desc"],
     [sortBy |-> "averageDuration", sortOrder |-> "desc"],
     [sortBy |-> "averageDuration", sortOrder |-> "asc"]}
ErrorsQueries ==
    {[statusCode |-> c, method |-> "", limit |-> 20] : c \in {NoParam, 500}}

Ingest ==
    \/ \E r \in Requests : RecordRequest(r)
    \/ \E q \in Queries : TrackDatabaseQuery(q)

Sample ==
    \/ \E delta \in CpuDeltas : SampleCpuUsage(delta)
    \/ \E mem \in MemoryReadings : SampleMemoryUsage(mem)
    \/ SampleNetworkUsage
    \/ CleanupOldData

Serve ==
    \/ GetPerformanceStats
    \/ \E query \in RequestsQueries : GetPerformanceRequests(query)
    \/ \E query \in SlowRequestsQueries : GetPerformanceSlowRequests(query)
    \/ \E query \in ErrorsQueries : GetPerformanceErrors(query)
    \/ \E query \in EndpointsQueries : GetPerformanceEndpoints(query)
    \/ GetPerformanceDatabase
    \/ GetPerformanceResources
    \/ GetPerformanceRealtime
    \/ \E apiKey \in ApiKeys : PostPerformanceReset(apiKey)

Call ==
    \/ Reset
    \/ GetStats
    \/ \E mutation \in Mutations : CallerMutates(mutation)

Step ==
    \/ Ingest
    \/ Sample
    \/ Serve
    \/ Call
    \/ \E delta \in TickDeltas : Tick(delta)

Next == steps < MaxSteps /\ Step

Spec == Init /\ [][Next]_vars

\* The same operations, from a process at capacity.
NextFull == steps < MaxFullSteps /\ Step

SpecFull == InitFull /\ [][NextFull]_vars

\* The operations the repository's own code performs on the aggregator,
\* from a process at capacity: no caller writes to a getStats() result.
NextProgram ==
    /\ steps < MaxProgramSteps
    /\ \/ Ingest
       \/ Sample
       \/ Serve
       \/ Reset
       \/ GetStats
       \/ \E delta \in TickDeltas : Tick(delta)

SpecProgram == InitFull /\ [][NextProgram]_vars

\* A process that only serves requests, some of which fail, while a caller
\* reads the statistics.
LoadRequests ==
    {[method |-> "GET", path |-> "/api/posts", statusCode |-> c, duration |-> 120] :
        c \in {200, 500}}

NextLoad ==
    /\ steps < MaxLoadSteps
    /\ \/ \E r \in LoadRequests : RecordRequest(r)
       \/ GetStats

SpecLoad == InitAfter(<<>>) /\ [][NextLoad]_vars

\* A process that serves requests of five different durations while a
\* caller reads the statistics.
PercentileRequests ==
    {[method |-> "GET", path |-> "/api/posts", statusCode |-> 200, duration |-> d] :
        d \in {10, 20, 30, 40, 50}}

NextPercentiles ==
    /\ steps < MaxPercentileSteps
    /\ \/ \E r \in PercentileRequests : RecordRequest(r)
       \/ GetStats

SpecPercentiles == InitAfter(<<>>) /\ [][NextPercentiles]_vars

\* ------------------------------------------------------------ middleware

\* res.end is called again on the response that was just finalized: the
\* override is still in place, so recordRequest runs again for the same
\* request before the original end.
EndAgain ==
    /\ last.op \in {"recordRequest", "res.end again"}
    /\ LET r == burst[Len(burst)]
           data == RequestData(r.id, r.method, r.path, r.statusCode, r.duration)
       IN /\ pm' = DoRecordRequest(pm, data, now)
          /\ burst' = Append(burst, RequestRecord(data, now))
    /\ last' = Done("res.end again")
    /\ steps' = steps + 1
    /\ UNCHANGED <<now, envKey, nextId, snapshot, timers, running, finalized,
                   tracked, cleanedAt>>
    /\ UNCHANGED elsewhere

\* Request data that is not what recordRequest destructures: no object at
\* all, or an object without id, method and path.
Undefined == "undefined"
Missing == [missing |-> TRUE]
MalformedRequests ==
    {Missing,
     [method |-> Undefined, path |-> Undefined, statusCode |-> 200, duration |-> 5]}

\* The wrapped res.end with malformed request data: destructuring undefined
\* throws out of res.end before the original end is reached; missing
\* properties are undefined and are recorded as such.
EndMalformed(data) ==
    /\ IF data = Missing
       THEN /\ last' = Answered("res.end (malformed)", data, 0,
                                [threw |-> "TypeError"])
            /\ UNCHANGED <<pm, nextId, finalized>>
       ELSE /\ pm' = DoRecordRequest(pm,
                         RequestData(nextId, data.method, data.path,
                                     data.statusCode, data.duration), now)
            /\ last' = Answered("res.end (malformed)", data, 0, None)
            /\ nextId' = nextId + 1
            /\ finalized' = finalized + 1
    /\ burst' = <<>>
    /\ steps' = steps + 1
    /\ UNCHANGED <<now, envKey, snapshot, timers, running, tracked, cleanedAt>>
    /\ UNCHANGED elsewhere

NextMiddleware ==
    /\ steps < MaxMiddlewareSteps
    /\ \/ \E r \in Requests : RecordRequest(r)
       \/ EndAgain
       \/ \E data \in MalformedRequests : EndMalformed(data)

SpecMiddleware == Init /\ [][NextMiddleware]_vars

\* ------------------------------------------------------------ lifecycle

\* A step of the process other than an operation of the aggregator's data.
Event(op) ==
    /\ last' = op
    /\ burst' = <<>>
    /\ steps' = steps + 1
    /\ UNCHANGED <<pm, now, envKey, nextId, snapshot, finalized, tracked, cleanedAt>>
    /\ UNCHANGED elsewhere

StartMonitoring ==
    /\ timers' = DoStartMonitoring(timers)
    /\ Event(Done("startMonitoring"))
    /\ UNCHANGED running

StopMonitoring ==
    /\ timers' = DoStopMonitoring(timers)
    /\ Event(Done("stopMonitoring"))
    /\ UNCHANGED running

\* The callback of a due interval throws (process.cpuUsage, os.totalmem, ...
\* fails): nothing catches it in the callback or in the process, so the
\* exception is uncaught and Node exits.
SamplerThrows(sampler) ==
    /\ Fires(sampler)
    /\ running' = FALSE
    /\ Event(Answered("uncaughtException", [sampler |-> sampler], 1, None))
    /\ UNCHANGED timers

\* SIGTERM or SIGINT arrives.  No listener calls stopMonitoring(); where
\* middleware/monitoring.js is loaded its listeners run (clearInterval on a
\* number of milliseconds) and the process goes on, with no listener the
\* signal ends the process.
Signals == {"SIGTERM", "SIGINT"}
Signal(sig) ==
    /\ \E listening \in BOOLEAN :
          /\ running' = listening
          /\ Event(Answered(sig, [listening |-> listening], 0, None))
    /\ UNCHANGED timers

NextLifecycle ==
    /\ steps < MaxLifecycleSteps
    /\ running
    /\ \/ StartMonitoring
       \/ StopMonitoring
       \/ Sample
       \/ \E sampler \in Samplers : SamplerThrows(sampler)
       \/ \E sig \in Signals : Signal(sig)
       \/ \E delta \in TickDeltas : Tick(delta)

SpecLifecycle == Init /\ [][NextLifecycle]_vars

\* A process that serves requests to two paths, one of them with two
\* methods, and nothing else.
EndpointRequests ==
    {[method |-> "GET", path |-> "/api/posts", statusCode |-> 200, duration |-> 100],
     [method |-> "GET", path |-> "/api/posts", statusCode |-> 200, duration |-> 200],
     [method |-> "GET", path |-> "/api/posts", statusCode |-> 500, duration |-> 300],
     [method |-> "POST", path |-> "/api/posts", statusCode |-> 201, duration |-> 200],
     [method |-> "GET", path |-> "/health", statusCode |-> 200, duration |-> 100]}

NextEndpoints ==
    /\ steps < MaxEndpointSteps
    /\ \E r \in EndpointRequests : RecordRequest(r)

SpecEndpoints == InitAfter(<<>>) /\ [][NextEndpoints]_vars

\* A process that serves requests whose status is just below or at the
\* error threshold, fast ones and slow ones.
StatusRequests ==
    {[method |-> "GET", path |-> "/api/posts", statusCode |-> c, duration |-> d] :
        c \in {ErrorStatus - 1, ErrorStatus}, d \in {5, 1500}}

NextStatus ==
    /\ steps < MaxStatusSteps
    /\ \E r \in StatusRequests : RecordRequest(r)

SpecStatus == Init /\ [][NextStatus]_vars

\* A process that serves requests and samples its CPU while a dashboard
\* polls the real-time summary: durations at and beyond the response-time
\* thresholds, CPU usage below, at and above its threshold.
RealtimeRequests ==
    {[method |-> "GET", path |-> "/api/posts", statusCode |-> 200, duration |-> 100],
     [method |-> "GET", path |-> "/api/posts", statusCode |-> 200, duration |-> 1000],
     [method |-> "GET", path |-> "/api/posts", statusCode |-> 500, duration |-> 6000]}
RealtimeCpuDeltas ==
    {[user |-> 300000, system |-> 100000],
     [user |-> 500000, system |-> 300000],
     [user |-> 600000, system |-> 300000]}

NextRealtime ==
    /\ steps < MaxRealtimeSteps
    /\ \/ \E r \in RealtimeRequests : RecordRequest(r)
       \/ \E delta \in RealtimeCpuDeltas : SampleCpuUsage(delta)
       \/ GetPerformanceRealtime

SpecRealtime == Init /\ [][NextRealtime]_vars

\* ------------------------------------------------------------ two instances

\* The module's own instance and one more made from the exported class.
Instances == {"performanceMonitor", "second"}

\* The instance whose recordRequest the res.end override of
\* instance.requestMiddleware() calls: the override names the module's
\* constant performanceMonitor, not this.
Recorder(instance) == "performanceMonitor"

\* A request passes through the middleware instance.requestMiddleware()
\* returned and its response is finalized.
RequestThrough(instance, r) ==
    LET c == RequestCall(now, nextId, r)
    IN /\ pm' = IF Recorder(instance) = "performanceMonitor" THEN Apply(pm, c) ELSE pm
       /\ second' = IF Recorder(instance) = "second" THEN Apply(second, c) ELSE second
       /\ nextId' = nextId + 1
       /\ last' = Answered("requestMiddleware", [instance |-> instance, request |-> r],
                           0, None)
       /\ burst' = Append(burst, RequestRecord(c.data, now))
       /\ steps' = steps + 1
       /\ finalized' = finalized + 1
       /\ UNCHANGED <<now, envKey, snapshot, timers, running, tracked, cleanedAt,
                      metrics, intervals, engine, timeouts, sent, observed>>

NextInstances ==
    /\ steps < MaxInstanceSteps
    /\ \E instance \in Instances, r \in Requests : RequestThrough(instance, r)

SpecInstances == Init /\ [][NextInstances]_vars

\* ------------------------------------------------------------ the store of monitoring.js

\* A step of middleware/monitoring.js: it leaves the PerformanceMonitor
\* instances and the alert engine alone.
ModuleEvent(op) ==
    /\ last' = op
    /\ burst' = <<>>
    /\ steps' = steps + 1
    /\ UNCHANGED <<pm, now, envKey, nextId, snapshot, timers, finalized, tracked,
                   cleanedAt, second, engine, timeouts, sent>>

\* The responses responseTimeMiddleware observes.
Observations ==
    {[route |-> route, time |-> time, statusCode |-> statusCode] :
        route \in {"GET /api/posts", "POST /api/posts"},
        time \in {5, 1500},
        statusCode \in {200, 500}}

Observe(o) ==
    /\ metrics' = DoObserve(metrics, o.route, o.time, o.statusCode, now)
    /\ observed' = Append(observed, o.time)
    /\ ModuleEvent(Answered("responseTimeMiddleware", o, 0, None))
    /\ UNCHANGED <<intervals, running>>

ClearMetrics ==
    /\ metrics' = DoClearMetrics(metrics)
    /\ observed' = <<>>
    /\ ModuleEvent(Done("clearMetrics"))
    /\ UNCHANGED <<intervals, running>>

\* getMetrics(req, res): the error rate in hundredths of a percent, the
\* route counters and the first five of each list.
GetMetrics ==
    /\ ModuleEvent(Answered("getMetrics", None, 200,
          [requests |-> metrics.requests,
           slowestRequests |-> Slice(metrics.performance.slowestRequests, 5),
           fastestRequests |-> Slice(metrics.performance.fastestRequests, 5),
           errorRate |-> IF metrics.requests.total > 0
                         THEN RoundHundredths(metrics.requests.errors,
                                              metrics.requests.total)
                         ELSE 0]))
    /\ UNCHANGED <<metrics, observed, intervals, running>>

NextStore ==
    /\ steps < MaxStoreSteps
    /\ \/ \E o \in Observations : Observe(o)
       \/ ClearMetrics
       \/ GetMetrics

\* A store that is empty, or holds ten requests.
InitStore == \E observations \in {<<>>, Busy} : InitWith(<<>>, observations)

SpecStore == InitStore /\ [][NextStore]_vars

\* ------------------------------------------------------------ the timers of monitoring.js

\* process.memoryUsage(), os.totalmem(), os.freemem(), process.cpuUsage()
ModuleReadings ==
    {[heapUsed |-> 45, heapTotal |-> 60, rss |-> 90, total |-> 8000, free |-> 1000,
      user |-> 600000, system |-> 300000],
     [heapUsed |-> 57, heapTotal |-> 60, rss |-> 95, total |-> 8000, free |-> 500,
      user |-> 900000, system |-> 400000]}

\* An interval of the module is held by the event loop of a live process.
Held(callback) == running /\ Timer(callback) \in intervals

LogMemoryUsage(reading) ==
    /\ Held("logMemoryUsage")
    /\ metrics' = DoLogMemoryUsage(metrics, reading, now)
    /\ ModuleEvent(Done("logMemoryUsage"))
    /\ UNCHANGED <<observed, intervals, running>>

\* checkResourceThresholds() only writes to the console.
CheckResourceThresholds ==
    /\ Held("checkResourceThresholds")
    /\ ModuleEvent(Done("checkResourceThresholds"))
    /\ UNCHANGED <<metrics, observed, intervals, running>>

\* SIGTERM or SIGINT arrives in a process that has loaded the module: its
\* listener runs clearInterval(memoryInterval), and the process, having a
\* listener for the signal, goes on.
Environments == {"production", "development"}
OnSignal(sig, env) ==
    /\ running
    /\ intervals' = ClearInterval(intervals, MemoryInterval(env))
    /\ ModuleEvent(Answered(sig, [env |-> env], 0, None))
    /\ UNCHANGED <<metrics, observed, running>>

NextModule ==
    /\ steps < MaxModuleSteps
    /\ \/ \E reading \in ModuleReadings : LogMemoryUsage(reading)
       \/ CheckResourceThresholds
       \/ \E sig \in Signals, env \in Environments : OnSignal(sig, env)
       \/ \E delta \in TickDeltas : Tick(delta)

SpecModule == InitAfter(<<>>) /\ [][NextModule]_vars

\* ------------------------------------------------------------ the alert engine

\* A step of the alert engine: it leaves the PerformanceMonitor instances
\* and middleware/monitoring.js alone.
EngineEvent(op) ==
    /\ last' = op
    /\ burst' = <<>>
    /\ steps' = steps + 1
    /\ UNCHANGED <<pm, now, envKey, nextId, snapshot, timers, running, finalized,
                   tracked, cleanedAt, second, metrics, intervals, observed>>

\* The thresholds a caller hands to checkMetric, with the fields the
\* engine reads: value, direction, severity, actions and escalation.
CpuWarning ==
    [value |-> 80, direction |-> "above", severity |-> "warning",
     actions |-> <<"slack">>, escalation |-> "gradual"]
CpuCritical ==
    [value |-> 95, direction |-> "above", severity |-> "critical",
     actions |-> <<"slack", "email">>, escalation |-> "immediate"]
TrafficLow ==
    [value |-> 1, direction |-> "below", severity |-> "warning",
     actions |-> <<"slack">>, escalation |-> Null]
Checks ==
    {[metricName |-> "cpu", value |-> v, threshold |-> CpuWarning] : v \in {50, 90}}
    \cup {[metricName |-> "cpu", value |-> v, threshold |-> CpuCritical] :
             v \in {50, 99}}
    \cup {[metricName |-> "traffic", value |-> v, threshold |-> TrafficLow] :
             v \in {0, 5}}

CheckMetric(check) ==
    LET after == DoCheckMetric(engine, timeouts, sent, check.metricName,
                               check.value, check.threshold, now)
    IN /\ engine' = after.engine
       /\ timeouts' = after.timeouts
       /\ sent' = after.sent
       /\ EngineEvent(Answered("checkMetric", check, 0,
                               [outcome |-> after.outcome]))

\* The timeout that is due first runs its callback.
EscalationStep(timer) ==
    /\ timer \in timeouts
    /\ timer.due <= now
    /\ \A other \in timeouts : timer.due <= other.due
    /\ sent' = DoEscalationStep(engine, sent, timer, now)
    /\ timeouts' = timeouts \ {timer}
    /\ EngineEvent(Answered("escalation",
                            [alertKey |-> timer.alertKey, step |-> timer.step,
                             occurrence |-> timer.alert.occurrence], 0, None))
    /\ UNCHANGED engine

AlertDeltas == {1000}

NextAlerts ==
    /\ steps < MaxAlertSteps
    /\ \/ \E check \in Checks : CheckMetric(check)
       \/ \E timer \in timeouts : EscalationStep(timer)
       \/ \E delta \in AlertDeltas : Tick(delta)

SpecAlerts == InitAfter(<<>>) /\ [][NextAlerts]_vars

\* ------------------------------------------------------------ retention

\* A process that serves slow, failed requests and tracks queries while its
\* cleanup interval runs at its period: the clock does not pass the moment
\* the interval is due before cleanupOldData has run.
RetentionRequests ==
    {[method |-> "GET", path |-> "/api/posts", statusCode |-> 500, duration |-> 1500]}
RetentionQueries == {[length |-> 20, duration |-> 250]}
RetentionDeltas == {1, CleanupIntervalMs - 1, CleanupIntervalMs}

Elapse(delta) ==
    /\ now + delta <= cleanedAt + CleanupIntervalMs
    /\ Tick(delta)

CleanupDue ==
    /\ now = cleanedAt + CleanupIntervalMs
    /\ CleanupOldData

NextRetention ==
    /\ steps < MaxRetentionSteps
    /\ \/ \E r \in RetentionRequests : RecordRequest(r)
       \/ \E q \in RetentionQueries : TrackDatabaseQuery(q)
       \/ \E delta \in RetentionDeltas : Elapse(delta)
       \/ CleanupDue

SpecRetention == InitAfter(<<>>) /\ [][NextRetention]_vars

\* ------------------------------------------------------------ health

\* process.memoryUsage() when GET /health is served: heap usage below and at
\* 90 %, 95 % and 98 %, and a full heap.
HealthReadings ==
    {[heapUsed |-> used, heapTotal |-> 200] : used \in {100, 180, 189, 190, 195, 196, 200}}

\* memPercent < percent, memPercent being heapUsed / heapTotal * 100.
MemPercentBelow(mem, percent) ==
    Less(Fraction(mem.heapUsed * 100, mem.heapTotal), Fraction(percent, 1))

\* The healthCheck object GET /health answers for a reading of the heap:
\* its status, the rounded heap percentage and the memory check.
HealthCheck(mem) ==
    [status |-> IF MemPercentBelow(mem, 95) THEN "healthy" ELSE "unhealthy",
     heapPercentage |-> RoundHundredths(mem.heapUsed, mem.heapTotal),
     checks |-> [memory |-> IF MemPercentBelow(mem, 90) THEN "healthy"
                            ELSE IF MemPercentBelow(mem, 95) THEN "warning"
                            ELSE "critical"]]

\* isHealthy ? 200 : (memPercent < 98 ? 429 : 503)
HealthStatusCode(mem) ==
    IF MemPercentBelow(mem, 95) THEN 200
    ELSE IF MemPercentBelow(mem, 98) THEN 429 ELSE 503

\* GET /health
GetHealth(mem) ==
    /\ Other(Answered("GET /health", mem, HealthStatusCode(mem), HealthCheck(mem)))
    /\ UNCHANGED <<pm, nextId, snapshot>>

\* A serving process whose health is probed.
NextServer ==
    /\ steps < MaxServerSteps
    /\ \/ \E r \in Requests : RecordRequest(r)
       \/ \E mem \in HealthReadings : GetHealth(mem)
       \/ \E delta \in TickDeltas : Tick(delta)

SpecServer == Init /\ [][NextServer]_vars

\* ------------------------------------------------------------ properties

\* C1: in every reachable state no bounded history is longer than its
\* capacity: response times 1000, slow requests 50, errors 100, slow queries
\* 50, and the CPU, process-memory, system-memory and network histories 100.
C1_HistoriesBounded ==
    /\ Len(pm.metrics.requests.responseTimes) <= MaxResponseTimes
    /\ Len(pm.metrics.requests.slowRequests) <= MaxSlowRequests
    /\ Len(pm.metrics.requests.errors) <= MaxErrors
    /\ Len(pm.metrics.database.performance.slowQueries) <= MaxSlowQueries
    /\ Len(pm.metrics.resources.cpu.history) <= MaxResourceHistory
    /\ Len(pm.metrics.resources.memory.process.history) <= MaxResourceHistory
    /\ Len(pm.metrics.resources.memory.system.history) <= MaxResourceHistory
    /\ Len(pm.metrics.resources.network.history) <= MaxResourceHistory

\* A CPU sample has just been pushed onto a full CPU history of a process
\* that has recorded more requests than the response-time history holds.
C1_Witness ==
    /\ last.op = "sampleCpuUsage"
    /\ Len(pm.metrics.resources.cpu.history) = MaxResourceHistory
    /\ pm.metrics.requests.total > MaxResponseTimes
    /\ Len(pm.metrics.requests.responseTimes) = MaxResponseTimes
    /\ Len(pm.metrics.requests.slowRequests) = MaxSlowRequests
    /\ Len(pm.metrics.requests.errors) = MaxErrors

\* C2: after a run of recordRequest calls with nothing else in between, a
\* request history that received more records than its capacity holds
\* exactly the last `capacity` of them, in the order they were recorded.
C2_LastCapacityRetained ==
    LET slow == SelectSeq(burst, LAMBDA r : r.duration > SlowRequestMs)
        failed == SelectSeq(burst, LAMBDA r : r.statusCode >= ErrorStatus)
        kept == LastN(burst, MaxResponseTimes)
    IN /\ Len(burst) > MaxResponseTimes =>
             pm.metrics.requests.responseTimes =
                [i \in 1..MaxResponseTimes |->
                    [timestamp |-> kept[i].timestamp,
                     duration |-> kept[i].duration,
                     method |-> kept[i].method,
                     path |-> kept[i].path,
                     statusCode |-> kept[i].statusCode]]
       /\ Len(slow) > MaxSlowRequests =>
             pm.metrics.requests.slowRequests = LastN(slow, MaxSlowRequests)
       /\ Len(failed) > MaxErrors =>
             pm.metrics.requests.errors = LastN(failed, MaxErrors)

\* Fifty-one slow requests in a row: the first is gone, the 51st is the
\* newest entry.
C2_Witness ==
    /\ last.op = "recordRequest"
    /\ Len(burst) = MaxSlowRequests + 1
    /\ \A i \in 1..Len(burst) : burst[i].duration > SlowRequestMs
    /\ \A i \in 1..Len(pm.metrics.requests.slowRequests) :
          pm.metrics.requests.slowRequests[i].id # burst[1].id
    /\ pm.metrics.requests.slowRequests[MaxSlowRequests] = burst[MaxSlowRequests + 1]

\* C3: a request just recorded is in the slow-request history exactly when
\* its duration is above 1000 ms; one of 999 ms or of exactly 1000 ms is not.
C3_SlowAboveThreshold ==
    last.op = "recordRequest" =>
        LET r == burst[Len(burst)]
        IN (r.duration > SlowRequestMs) <=>
              (\E i \in 1..Len(pm.metrics.requests.slowRequests) :
                  pm.metrics.requests.slowRequests[i].id = r.id)

\* A request of exactly 1000 ms has just been recorded and is not in the
\* slow-request history.
C3_Witness ==
    /\ last.op = "recordRequest"
    /\ burst[Len(burst)].duration = SlowRequestMs
    /\ \A i \in 1..Len(pm.metrics.requests.slowRequests) :
          pm.metrics.requests.slowRequests[i].id # burst[Len(burst)].id

\* C3 as stated: a request just recorded is in the slow-request history
\* exactly when its duration is 1000 ms or more.
C3_AsStated ==
    last.op = "recordRequest" =>
        LET r == burst[Len(burst)]
        IN (r.duration >= SlowRequestMs) <=>
              (\E i \in 1..Len(pm.metrics.requests.slowRequests) :
                  pm.metrics.requests.slowRequests[i].id = r.id)

\* C4: a call of getStats() leaves the whole aggregator as it was.
C4_GetStatsPure == [][last'.op = "getStats" => pm' = pm]_vars

\* getStats() has answered for an aggregator whose response times are not
\* in ascending order of duration.
C4_Witness ==
    /\ last.op = "getStats"
    /\ snapshot.totalRequests >= 2
    /\ \E i \in 1..(Len(pm.metrics.requests.responseTimes) - 1) :
          pm.metrics.requests.responseTimes[i].duration
             > pm.metrics.requests.responseTimes[i + 1].duration

\* C5: serving a read endpoint leaves the request, error, query and
\* slow-query histories unchanged in content and order.
C5_ReadsKeepHistories ==
    [][last'.op \in {"GET /performance/stats", "GET /performance/requests",
                     "GET /performance/slow-requests", "GET /performance/errors",
                     "GET /performance/endpoints", "GET /performance/database",
                     "GET /performance/resources", "GET /performance/realtime"}
         => /\ pm'.metrics.requests.responseTimes = pm.metrics.requests.responseTimes
            /\ pm'.metrics.requests.slowRequests = pm.metrics.requests.slowRequests
            /\ pm'.metrics.requests.errors = pm.metrics.requests.errors
            /\ pm'.metrics.database.queries.history = pm.metrics.database.queries.history
            /\ pm'.metrics.database.performance.slowQueries
                  = pm.metrics.database.performance.slowQueries]_vars

\* C6: a write to the object getStats() returned changes nothing of what a
\* later getStats() reports for resources, database and endpoints.
C6_SnapshotIsolated ==
    [][last'.op = "callerMutates" =>
          /\ Read(GetStatsResult(pm', now'), pm').resources
                = Read(GetStatsResult(pm, now), pm).resources
          /\ Read(GetStatsResult(pm', now'), pm').database
                = Read(GetStatsResult(pm, now), pm).database
          /\ Read(GetStatsResult(pm', now'), pm').api.endpoints
                = Read(GetStatsResult(pm, now), pm).api.endpoints]_vars

C8_ResetNeedsCredential ==
    [][last'.op = "POST /performance/reset" =>
          IF envKey # NoKey /\ last'.request.apiKey = envKey
          THEN last'.status = 200 /\ pm' = DoReset(pm, now)
          ELSE last'.status = 401 /\ pm' = pm]_vars

\* C9: the errorRate getStats() reports is 100 times the number of retained
\* error records over the request counter, to the nearest hundredth; ten
\* requests with two retained failures give 20.
C9_ErrorRate ==
    (last.op = "getStats" /\ pm.metrics.requests.total > 0) =>
        LET total == pm.metrics.requests.total
            retained == Len(pm.metrics.requests.errors)
            off == snapshot.errorRate * total - 10000 * retained
        IN /\ 2 * off <= total
           /\ -2 * off <= total
           /\ (total = 10 /\ retained = 2) => snapshot.errorRate = 2000

\* getStats() has answered after ten requests of which two failed.
C9_Witness ==
    /\ last.op = "getStats"
    /\ pm.metrics.requests.total = 10
    /\ Len(pm.metrics.requests.errors) = 2
    /\ \A i \in 1..2 : pm.metrics.requests.errors[i].statusCode = 500
    /\ snapshot.errorRate = 2000

\* C10: on an aggregator with no recorded requests getStats() reports
\* errorRate 0, averageResponseTime 0 and percentiles 0.
C10_EmptyDefaults ==
    (last.op = "getStats" /\ pm.metrics.requests.total = 0) =>
        /\ snapshot.errorRate = 0
        /\ snapshot.averageResponseTime = 0
        /\ snapshot.responseTimePercentiles.p50 = 0
        /\ snapshot.responseTimePercentiles.p95 = 0
        /\ snapshot.responseTimePercentiles.p99 = 0

\* C11: each percentile getStats() reports is the retained duration that
\* stands at index floor(fraction x length) when the durations are put in
\* ascending order (as many as that index are smaller, more than that index
\* are not larger), and 0 for an empty history; durations 10, 20, 30, 40, 50
\* give p50 = 30 and p95 = 50.
C11_Percentiles ==
    last.op = "getStats" =>
        LET d == pm.metrics.requests.responseTimes
            n == Len(d)
            AtIndex(reported, percent) ==
                IF n = 0 THEN reported = 0
                ELSE \E i \in 1..n :
                        /\ reported = 100 * d[i].duration
                        /\ Cardinality({j \in 1..n : d[j].duration < d[i].duration})
                              <= (n * percent) \div 100
                        /\ Cardinality({j \in 1..n : d[j].duration <= d[i].duration})
                              > (n * percent) \div 100
        IN /\ AtIndex(snapshot.responseTimePercentiles.p50, 50)
           /\ AtIndex(snapshot.responseTimePercentiles.p95, 95)
           /\ AtIndex(snapshot.responseTimePercentiles.p99, 99)
           /\ (n = 5 /\ {d[i].duration : i \in 1..n} = {10, 20, 30, 40, 50}) =>
                 /\ snapshot.responseTimePercentiles.p50 = 3000
                 /\ snapshot.responseTimePercentiles.p95 = 5000

\* getStats() has answered for the durations 10, 20, 30, 40, 50 recorded
\* out of order.
C11_Witness ==
    /\ last.op = "getStats"
    /\ Len(pm.metrics.requests.responseTimes) = 5
    /\ {pm.metrics.requests.responseTimes[i].duration : i \in 1..5} = {10, 20, 30, 40, 50}
    /\ pm.metrics.requests.responseTimes[1].duration = 50
    /\ snapshot.responseTimePercentiles.p50 = 3000
    /\ snapshot.responseTimePercentiles.p95 = 5000

\* C12: after any sequence of recordRequest calls there is an aggregate for
\* each path requested and, for the requests observed on it, totalRequests
\* is their number, totalDuration their sum, averageDuration the quotient of
\* the two, slowest their maximum, fastest their minimum, and statusCodes
\* counts them by status (so the counts sum to totalRequests); durations 100,
\* 200, 300 give average 200, slowest 300, fastest 100.
C12_EndpointAggregates ==
    LET eps == pm.metrics.api.endpoints
    IN /\ DOMAIN eps = {burst[i].path : i \in 1..Len(burst)}
       /\ \A p \in DOMAIN eps :
             LET seen == {i \in 1..Len(burst) : burst[i].path = p}
                 e == eps[p]
             IN /\ e.totalRequests = Cardinality(seen)
                /\ e.totalDuration =
                      Sum([i \in 1..Len(burst) |->
                              IF i \in seen THEN burst[i].duration ELSE 0])
                /\ e.averageDuration.num * e.totalRequests
                      = e.totalDuration * e.averageDuration.den
                /\ \A i \in seen : burst[i].duration <= e.slowest
                /\ \E i \in seen : burst[i].duration = e.slowest
                /\ \A i \in seen : burst[i].duration >= e.fastest
                /\ \E i \in seen : burst[i].duration = e.fastest
                /\ DOMAIN e.statusCodes = {burst[i].statusCode : i \in seen}
                /\ \A c \in DOMAIN e.statusCodes :
                      e.statusCodes[c]
                         = Cardinality({i \in seen : burst[i].statusCode = c})
                /\ (Cardinality(seen) = 3
                      /\ {burst[i].duration : i \in seen} = {100, 200, 300}) =>
                         /\ e.averageDuration = Fraction(200, 1)
                         /\ e.slowest = 300
                         /\ e.fastest = 100

\* Requests of 300, 100 and 200 ms have been recorded on one endpoint,
\* with two different status codes.
C12_Witness ==
    /\ Len(burst) = 3
    /\ <<burst[1].duration, burst[2].duration, burst[3].duration>> = <<300, 100, 200>>
    /\ \A i \in 1..3 : burst[i].path = "/api/posts"
    /\ pm.metrics.api.endpoints["/api/posts"].totalRequests = 3
    /\ pm.metrics.api.endpoints["/api/posts"].averageDuration = Fraction(200, 1)
    /\ pm.metrics.api.endpoints["/api/posts"].statusCodes = (200 :> 2) @@ (500 :> 1)

\* C13: there is one aggregate per (method, path) pair requested, and the
\* counts of an aggregate are those of the requests of its own method.
C13_AggregatePerMethodAndPath ==
    LET eps == pm.metrics.api.endpoints
    IN /\ Cardinality(DOMAIN eps)
            = Cardinality({<<burst[i].method, burst[i].path>> : i \in 1..Len(burst)})
       /\ \A p \in DOMAIN eps :
             eps[p].totalRequests
                = Cardinality({i \in 1..Len(burst) :
                                  /\ burst[i].path = p
                                  /\ burst[i].method = eps[p].method})

\* C14: given malformed or missing request data the wrapped res.end leaves
\* the aggregator as it was, does not throw, and invokes the original end.
C14_MalformedIsNoOp ==
    [][last'.op = "res.end (malformed)" =>
          /\ pm' = pm
          /\ last'.body = None
          /\ finalized' = finalized + 1]_vars

\* C15: after the callback of a sampler has failed the process lives and
\* the intervals of all four samplers are still scheduled.
C15_SamplerFailureSwallowed ==
    last.op = "uncaughtException" => \A sampler \in Samplers : Fires(sampler)

\* C16: once stopMonitoring() has returned no interval of the aggregator
\* is left to fire.
C16_StopCancelsEveryTimer ==
    last.op = "stopMonitoring" => \A sampler \in Samplers : ~Fires(sampler)

\* C17: once SIGTERM or SIGINT has been handled no interval of the
\* aggregator is left to fire.
C17_SignalCancelsTimers ==
    last.op \in Signals => \A sampler \in Samplers : ~Fires(sampler)

C19_RecordedOncePerRequest ==
    [][last'.op \in {"recordRequest", "res.end again"} =>
          pm'.metrics.requests.total - pm.metrics.requests.total
             = finalized' - finalized]_vars

C21_AverageIsMean ==
    /\ pm.metrics.database.queries.total = Len(tracked)
    /\ pm.metrics.database.queries.averageTime.num * Len(tracked)
          = Sum(tracked) * pm.metrics.database.queries.averageTime.den
    /\ Len(tracked) = 0 => pm.metrics.database.queries.averageTime = Zero

\* A query of 250 ms has been tracked after fifty of 101 ms and a cleanup
\* tick that emptied the query history.
C21_Witness ==
    /\ last.op = "trackDatabaseQuery"
    /\ last.request.duration = 250
    /\ Len(tracked) = MaxSlowQueries + 1
    /\ Len(pm.metrics.database.queries.history) = 1
    /\ pm.metrics.database.queries.averageTime = Fraction(5300, 51)

C23_ErrorAtOrAboveThreshold ==
    [][last'.op = "recordRequest" =>
          LET r == burst'[Len(burst')]
          IN pm'.metrics.requests.errors =
                IF r.statusCode >= ErrorStatus
                THEN Append(pm.metrics.requests.errors, r)
                ELSE pm.metrics.requests.errors]_vars

\* A fast request answered with status 400 has just been recorded: it is in
\* the error history and not in the slow-request history.
C23_Witness ==
    /\ last.op = "recordRequest"
    /\ burst[Len(burst)].statusCode = ErrorStatus
    /\ burst[Len(burst)].duration <= SlowRequestMs
    /\ pm.metrics.requests.errors[Len(pm.metrics.requests.errors)] = burst[Len(burst)]
    /\ \A i \in 1..Len(pm.metrics.requests.slowRequests) :
          pm.metrics.requests.slowRequests[i].id # burst[Len(burst)].id

\* C24: a CPU sample just taken records as usage the CPU time consumed
\* since the previous sample as a percentage of the 5-second sampling
\* interval, and the usage field holds the value of that latest sample.
C24_UsageOfInterval ==
    last.op = "sampleCpuUsage" =>
        LET cpu == pm.metrics.resources.cpu
            consumed == last.request.user + last.request.system
        IN /\ cpu.history[Len(cpu.history)].usage =
                 Fraction(consumed * 100, CpuIntervalMs * 1000)
           /\ cpu.usage = cpu.history[Len(cpu.history)].usage

\* C25: GET /performance/realtime leaves the aggregator as it was and
\* answers from what getStats() returns at that moment: one alert for each
\* threshold exceeded (error rate above 5, CPU usage above 80, average
\* response time above 1000, p99 above 5000) and no other; the status is
\* 'healthy' exactly when there is no alert, 'critical' exactly when p99 is
\* above 5000, and 'warning' otherwise.
C25_RealtimeAlerts ==
    [][last'.op = "GET /performance/realtime" =>
          LET stats == Read(GetStatsResult(pm, now), pm)
              body == last'.body
              crossed ==
                 <<stats.errorRate > 500,
                   stats.resources.cpu.usage.num > 80 * stats.resources.cpu.usage.den,
                   stats.averageResponseTime > 100000,
                   stats.responseTimePercentiles.p99 > 500000>>
              expected ==
                 <<Alert("error_rate", "warning"), Alert("cpu_usage", "warning"),
                   Alert("response_time", "warning"),
                   Alert("response_time", "critical")>>
          IN /\ pm' = pm
             /\ snapshot' = snapshot
             /\ Len(body.alerts) = Cardinality({i \in 1..4 : crossed[i]})
             /\ \A i \in 1..4 :
                   crossed[i] <=>
                      \E j \in 1..Len(body.alerts) : body.alerts[j] = expected[i]
             /\ body.status = "healthy" <=> body.alerts = <<>>
             /\ body.status = "critical" <=> crossed[4]
             /\ body.status \in {"healthy", "warning", "critical"}]_vars

\* The real-time summary has answered 'critical' with all four alerts.
C25_Witness ==
    /\ last.op = "GET /performance/realtime"
    /\ last.body.status = "critical"
    /\ Len(last.body.alerts) = 4
    /\ pm.metrics.requests.total > 0

\* C26: whatever sortBy and sortOrder were asked, an answer of GET
\* /performance/endpoints that lists endpoints names as slowestEndpoint one
\* whose average duration is the greatest, as fastestEndpoint one whose
\* average duration is the smallest, and gives as totalRequests the sum of
\* the aggregates' totalRequests.
C26_EndpointsSummary ==
    (last.op = "GET /performance/endpoints" /\ last.body.totalEndpoints > 0) =>
        LET endpoints == pm.metrics.api.endpoints
            Average(p) == endpoints[p].averageDuration
        IN /\ \A p \in DOMAIN endpoints :
                 ~Less(Average(last.body.slowestEndpoint), Average(p))
           /\ \A p \in DOMAIN endpoints :
                 ~Less(Average(p), Average(last.body.fastestEndpoint))
           /\ last.body.totalRequests =
                 Sum([i \in 1..Len(last.body.endpoints) |->
                         endpoints[last.body.endpoints[i]].totalRequests])

\* C27: GET /health answers 200 whenever the status it reports is
\* 'healthy' and 503 whenever the status it reports is 'unhealthy'.
C27_HealthStatusCode ==
    last.op = "GET /health" =>
        /\ last.body.status = "healthy" => last.status = 200
        /\ last.body.status = "unhealthy" => last.status = 503

\* C28: whatever reads were served before, when recordRequest or
\* trackDatabaseQuery pushes to a response-time history, error history or
\* slow-query list that is full, the record that leaves it (its first, by
\* shift()) is no newer than any record that stays.
C28_EvictsOldest ==
    [][last'.op \in {"recordRequest", "trackDatabaseQuery"} =>
          LET Oldest(old, new, capacity) ==
                 (Len(old) = capacity /\ new # old) =>
                    \A i \in 1..Len(old) : old[1].timestamp <= old[i].timestamp
          IN /\ Oldest(pm.metrics.requests.responseTimes,
                       pm'.metrics.requests.responseTimes, MaxResponseTimes)
             /\ Oldest(pm.metrics.requests.errors,
                       pm'.metrics.requests.errors, MaxErrors)
             /\ Oldest(pm.metrics.database.performance.slowQueries,
                       pm'.metrics.database.performance.slowQueries,
                       MaxSlowQueries)]_vars

\* C29: in every reachable state, after reset() too, the totalRequests of
\* the endpoint aggregates add up to the total request counter.
C29_EndpointsAddUpToTotal ==
    LET endpoints == pm.metrics.api.endpoints
        RECURSIVE Total(_)
        Total(left) == IF left = {} THEN 0
                       ELSE LET p == CHOOSE x \in left : TRUE
                            IN endpoints[p].totalRequests + Total(left \ {p})
    IN Total(DOMAIN endpoints) = pm.metrics.requests.total

\* C30: in every reachable state the total request counter is the sum of
\* the per-method counters and the sum of the per-status-code counters.
C30_CountersAgree ==
    LET reqs == pm.metrics.requests
        RECURSIVE Total(_, _)
        Total(map, left) == IF left = {} THEN 0
                            ELSE LET k == CHOOSE x \in left : TRUE
                                 IN map[k] + Total(map, left \ {k})
    IN /\ reqs.total = Total(reqs.byMethod, DOMAIN reqs.byMethod)
       /\ reqs.total = Total(reqs.byStatus, DOMAIN reqs.byStatus)

\* A request has just been recorded after others of another method and of
\* another status code, one of the keys counting more than one request.
C30_Witness ==
    /\ last.op = "recordRequest"
    /\ Cardinality(DOMAIN pm.metrics.requests.byMethod) >= 2
    /\ Cardinality(DOMAIN pm.metrics.requests.byStatus) >= 2
    /\ \E k \in DOMAIN pm.metrics.requests.byMethod :
          pm.metrics.requests.byMethod[k] >= 2
    /\ pm.metrics.requests.total >= 3

C32_HistoriesWithinTotal ==
    LET reqs == pm.metrics.requests
    IN /\ Len(reqs.errors) <= reqs.total
       /\ Len(reqs.slowRequests) <= reqs.total
       /\ reqs.total > 0 =>
             /\ GetStatsResult(pm, now).errorRate >= 0
             /\ GetStatsResult(pm, now).errorRate <= 100 * 100

\* getStats() has reported an error rate of 100 for an aggregator all of
\* whose requests failed and were slow.
C32_Witness ==
    /\ last.op = "getStats"
    /\ pm.metrics.requests.total > 0
    /\ Len(pm.metrics.requests.errors) = pm.metrics.requests.total
    /\ Len(pm.metrics.requests.slowRequests) = pm.metrics.requests.total
    /\ snapshot.errorRate = 100 * 100

\* C33: a request handled through the middleware of one instance changes
\* that instance and leaves the other instance as it was.
C33_MiddlewareRecordsIntoOwnInstance ==
    [][last'.op = "requestMiddleware" =>
          IF last'.request.instance = "second"
          THEN second' # second /\ pm' = pm
          ELSE pm' # pm /\ second' = second]_vars

\* C34: in the store of monitoring.js, performance.fastestRequests holds,
\* in ascending order of time, the ten lowest times observed since the
\* module was loaded or clearMetrics() ran, or all of them when fewer than
\* ten were observed.
C34_FastestAreLowest ==
    Times(metrics.performance.fastestRequests)
       = Slice(SortByKey(observed, observed, FALSE), MaxFastest)

\* C35: once the listener of middleware/monitoring.js has handled SIGTERM
\* or SIGINT, the event loop holds neither of the module's two intervals,
\* and the next step is not one of their callbacks and adds no sample to
\* system.memoryUsage or system.cpuUsage.
C35_SignalCancelsModuleIntervals ==
    /\ [](last.op \in Signals => intervals = {})
    /\ [][last.op \in Signals =>
             /\ last'.op \notin {"logMemoryUsage", "checkResourceThresholds"}
             /\ metrics'.system = metrics.system]_vars

\* C36: in every reachable state of the store of monitoring.js,
\* requests.total is requests.success plus requests.errors, the counts of
\* the routes add up to requests.total, and every route's count is its
\* errors plus its successes and its averageTime its totalTime divided by
\* its count.
C36_StoreCountersAgree ==
    LET requests == metrics.requests
        byRoute == requests.byRoute
        RECURSIVE Count(_)
        Count(left) == IF left = {} THEN 0
                       ELSE LET r == CHOOSE x \in left : TRUE
                            IN byRoute[r].count + Count(left \ {r})
    IN /\ requests.total = requests.success + requests.errors
       /\ Count(DOMAIN byRoute) = requests.total
       /\ \A r \in DOMAIN byRoute :
             /\ byRoute[r].count = byRoute[r].errors + byRoute[r].successes
             /\ byRoute[r].count > 0
             /\ byRoute[r].averageTime.num * byRoute[r].count
                   = byRoute[r].totalTime * byRoute[r].averageTime.den

\* A response has been observed by a store that holds two routes, both with
\* failed and successful requests, after a clearMetrics().
C36_Witness ==
    /\ last.op = "responseTimeMiddleware"
    /\ Cardinality(DOMAIN metrics.requests.byRoute) = 2
    /\ metrics.requests.errors > 0
    /\ metrics.requests.success > 0
    /\ metrics.requests.total = 3
    /\ Len(observed) = 3

\* C37: under any sequence of checkMetric calls the engine holds an active
\* alert under a key exactly when the last history entry of the key is
\* 'triggered', the history of every key alternates triggered, cleared,
\* triggered, ..., and a call of checkMetric triggers (notifies the
\* threshold's channels and writes one 'triggered' entry) exactly when the
\* value breaches and no alert of the key is active, clears (writes one
\* 'cleared' entry) exactly when the value is within the threshold and an
\* alert of the key is active, and otherwise writes and sends nothing.
C37_OneAlertPerEpisode ==
    /\ [](LET history == engine.alertHistory
              KeyOf(entry) == AlertKey(entry.alert.metric,
                                       entry.alert.threshold.severity)
              keys == {KeyOf(history[i]) : i \in 1..Len(history)}
                         \cup DOMAIN engine.activeAlerts
              Of(key) == SelectSeq(history, LAMBDA entry : KeyOf(entry) = key)
          IN \A key \in keys :
                /\ \A i \in 1..Len(Of(key)) :
                      Of(key)[i].type = IF i % 2 = 1 THEN "triggered" ELSE "cleared"
                /\ key \in DOMAIN engine.activeAlerts <=> Len(Of(key)) % 2 = 1)
    /\ [][last'.op = "checkMetric" =>
             LET check == last'.request
                 key == AlertKey(check.metricName, check.threshold.severity)
                 breach == IF check.threshold.direction = "above"
                           THEN check.value > check.threshold.value
                           ELSE check.value < check.threshold.value
                 active == key \in DOMAIN engine.activeAlerts
                 written == SubSeq(engine'.alertHistory,
                                   Len(engine.alertHistory) + 1,
                                   Len(engine'.alertHistory))
                 notified == SubSeq(sent', Len(sent) + 1, Len(sent'))
             IN /\ SubSeq(engine'.alertHistory, 1, Len(engine.alertHistory))
                      = engine.alertHistory
                /\ SubSeq(sent', 1, Len(sent)) = sent
                /\ IF breach /\ ~active
                   THEN /\ Len(written) = 1
                        /\ written[1].type = "triggered"
                        /\ [i \in 1..Len(notified) |-> notified[i].channel]
                              = check.threshold.actions
                   ELSE IF ~breach /\ active
                   THEN /\ Len(written) = 1
                        /\ written[1].type = "cleared"
                        /\ notified = <<>>
                   ELSE written = <<>> /\ notified = <<>>]_vars

\* A breaching check has found the alert of its key active and triggered
\* nothing, the key having been triggered, cleared and triggered again.
C37_Witness ==
    /\ last.op = "checkMetric"
    /\ last.body.outcome = "active"
    /\ Len(engine.alertHistory) = 3
    /\ \A i \in 1..3 : engine.alertHistory[i].alert.metric = "cpu"
    /\ engine.alertHistory[2].type = "cleared"
    /\ Cardinality(DOMAIN engine.activeAlerts) = 1

\* C38: no notification is sent by an escalation step for an alert that
\* had been cleared when the step ran, an alert of the same key being
\* active again or not.
C38_ClearedAlertNotEscalated ==
    \A i \in 1..Len(sent) :
       sent[i].by = "escalation" =>
          ~\E j \in 1..sent[i].written :
              /\ engine.alertHistory[j].type = "cleared"
              /\ engine.alertHistory[j].alert.occurrence = sent[i].occurrence

====
